---- MODULE Spec2Model ----
(***************************************************************************)
(* PS Consult - UNTH: the offline-first synchronisation layer.             *)
(*                                                                         *)
(* State machine of the offline consult queue (Dexie table                 *)
(* offlineConsults), the sync engine syncAllPending and the React provider *)
(* OnlineStatusProvider that starts it (attemptSync, the 'online' /        *)
(* 'offline' listeners, the service-worker message listener and the        *)
(* manual Sync button).                                                    *)
(*                                                                         *)
(* Time is counted in whole days.  createdAt and the sweep's cutoff are    *)
(* ISO-8601 strings of fixed width produced by Date.toISOString(), whose   *)
(* lexicographic order is their chronological order, so the comparison     *)
(* entry.createdAt < cutoff is modelled by < on day numbers.               *)
(*                                                                         *)
(* Every Dexie call outside an explicit transaction runs in a transaction  *)
(* of its own, and IndexedDB runs transactions over the same object store  *)
(* in the order they were created, so each store call takes effect         *)
(* atomically at the moment it is issued.  markConsultFailed issues two    *)
(* calls (get, then update) with an await between them and is two steps:   *)
(* writes created while the get is outstanding land between the two.  The  *)
(* update is created when the get completes, so it runs before the writes  *)
(* of continuations that start later; the model keeps that order between   *)
(* the updates of overlapping markConsultFailed calls.                     *)
(*                                                                         *)
(* Presentation state (toasts, pendingCount) is not part of the model.     *)
(* Store calls are taken to succeed.                                       *)
(***************************************************************************)
EXTENDS Integers, Sequences, FiniteSets, TLC

\* ------------------------------------------------------------------ bounds
\* number of saveOfflineConsult calls explored
MaxEnq == 3
\* number of syncAllPending passes that may be in flight together
MaxPasses == 2
\* last day of the explored time line
MaxNow == 8
\* largest value of the random suffix of a clientId
MaxDraw == 1
\* largest id of a record in a server response
MaxServerId == 2
\* number of cacheConsults / cacheSchedule calls explored
MaxReplace == 3
\* number of fetch events explored
MaxFetch == 3

\* ------------------------------------------------------- program constants
\* 7 * 24 * 60 * 60 * 1000 ms, in days
RetentionDays == 7

Ids == 1..MaxEnq
Slots == 1..MaxPasses
\* The days at which the clock is read: the first day and the last day,
\* more than the retention window later.
Instants ==
  {0, MaxNow}
\* Math.random().toString(36).slice(2, 9), numbered
Draws == 0..MaxDraw
\* ids of server records (consults, schedules)
ServerIds == 1..MaxServerId
\* the calls of cacheConsults and cacheSchedule, in call order
Calls == 1..MaxReplace
\* event.data.type of a message from the service worker
MessageTypes == {"SYNC_CONSULTS", "OTHER"}

VARIABLES
  offlineConsults,  \* the Dexie table: localId -> record, for the records present
  nextId,           \* the table's auto-increment key generator ('++id')
  now,              \* Date.now(), in days
  isOnline,         \* React state isOnline
  syncing,          \* React state syncing (the latest value set)
  closureSyncing,   \* the value of syncing captured by the attemptSync closure
                    \* that the listeners and the Sync button currently hold
  passes,           \* the syncAllPending calls in flight, by slot
  reachedSynced,    \* history: localIds whose record has been marked synced
  issued,           \* history: the {id, clientId} returned by each
                    \* saveOfflineConsult call, in call order
  transmitLog,      \* history: localId -> how many syncFn calls for the
                    \* record have resolved (ok) and rejected (failed)
  cachedConsults,   \* the Dexie table cachedConsults: id -> row
  cachedSchedule,   \* the Dexie table cachedSchedule: id -> row
  replaces,         \* the cacheConsults / cacheSchedule calls made so far
  lastRead,         \* what the latest getCachedConsults / getCachedSchedule
                    \* call returned
  swState,          \* life cycle of the service worker of this build
  swCaches,         \* CacheStorage: cache name -> (request -> response)
  swPuts,           \* cache.put calls issued and not awaited, yet to land
  swResult,         \* what the latest fetch event was answered with
  swFetches,        \* number of fetch events handled
  swDeleted,        \* history: the cache names deleted on activation
  swEvent,          \* the latest fetch event: its request, the strategy the
                    \* listener chose and the calls its handling made
  swRevalidate,     \* staleWhileRevalidate: the background fetches in flight
  page              \* CreateConsultPage: its state (submitting, result), the
                    \* position of the onSubmit call and what that call did

\* The tables of server records and the calls on them.
cacheVars == <<cachedConsults, cachedSchedule, replaces, lastRead>>

\* The offline queue, the provider and the passes.
queueVars ==
  <<offlineConsults, nextId, now, isOnline, syncing, closureSyncing, passes,
    reachedSynced, issued, transmitLog>>

\* The service worker and the caches it manages.
swVars ==
  <<swState, swCaches, swPuts, swResult, swFetches, swDeleted, swEvent,
    swRevalidate>>

\* The consult form.
pageVars == <<page>>

vars == <<queueVars, cacheVars, swVars, pageVars>>

\* ------------------------------------------------------------ the store

\* The elements of a set of integers in ascending order.
RECURSIVE Ascending(_)
Ascending(S) ==
  IF S = {} THEN <<>>
  ELSE LET m == CHOOSE x \in S : \A y \in S : x <= y
       IN <<m>> \o Ascending(S \ {m})

\* `offline-${Date.now()}-${Math.random().toString(36).slice(2, 9)}`: the
\* token is made of the time of the call and the random suffix.
ClientId(t, r) == <<"offline", t, r>>

NewEntryBarePayload(t, r) ==
  [clientId |-> ClientId(t, r), data |-> [client_id |-> <<>>],
   status |-> "pending", createdAt |-> t, attempts |-> 0]

\* saveOfflineConsult's entry: the clientId, the payload with the clientId
\* put in it (the form's fields are not followed), status 'pending',
\* createdAt stamped, attempts 0.
NewEntry(t, r) ==
  [clientId |-> ClientId(t, r), data |-> [client_id |-> ClientId(t, r)],
   status |-> "pending", createdAt |-> t, attempts |-> 0]

\* db.offlineConsults.add(entry): the key generator assigns the next id.
Add(tbl, id, entry) ==
  [k \in DOMAIN tbl \cup {id} |-> IF k = id THEN entry ELSE tbl[k]]

getPendingConsultsNewestFirst(tbl) ==
  LET a == Ascending({id \in DOMAIN tbl : tbl[id].status = "pending"})
  IN [i \in 1..Len(a) |-> a[Len(a) + 1 - i]]

\* where('status').equals('pending').toArray(): the records whose status is
\* 'pending', in index order, that is by primary key within the one status.
getPendingConsults(tbl) ==
  Ascending({id \in DOMAIN tbl : tbl[id].status = "pending"})

markConsultSyncedResets(tbl, id) ==
  IF id \in DOMAIN tbl
  THEN [tbl EXCEPT ![id].status = "synced", ![id].attempts = 0]
  ELSE tbl

markConsultSyncedCounting(tbl, id) ==
  IF id \in DOMAIN tbl
  THEN [tbl EXCEPT ![id].status = "synced", ![id].attempts = @ + 1]
  ELSE tbl

markConsultSyncedStrips(tbl, id) ==
  IF id \in DOMAIN tbl
  THEN [tbl EXCEPT ![id].status = "synced", ![id].data = [client_id |-> <<>>]]
  ELSE tbl

\* update(id, {status: 'synced'}): changes the record when it exists.
markConsultSynced(tbl, id) ==
  IF id \in DOMAIN tbl THEN [tbl EXCEPT ![id].status = "synced"] ELSE tbl

\* markConsultFailed, first call: get(id); -1 stands for undefined.
ReadAttempts(tbl, id) ==
  IF id \in DOMAIN tbl THEN tbl[id].attempts ELSE -1

markFailedUpdateKeepsStatus(tbl, id, attempts) ==
  IF id \in DOMAIN tbl
  THEN [tbl EXCEPT ![id].attempts = attempts + 1]
  ELSE tbl

markFailedUpdatePuts(tbl, id, attempts) ==
  IF id \in DOMAIN tbl
  THEN [tbl EXCEPT ![id].status = "failed", ![id].attempts = attempts + 1]
  ELSE [k \in DOMAIN tbl \cup {id} |->
          IF k = id
          THEN [NewEntry(0, 0) EXCEPT !.status = "failed", !.attempts = attempts + 1]
          ELSE tbl[k]]

\* markConsultFailed, second call: update(id, {status: 'failed',
\* attempts: (entry.attempts || 0) + 1}) with the entry read before.
markFailedUpdate(tbl, id, attempts) ==
  IF id \in DOMAIN tbl
  THEN [tbl EXCEPT ![id].status = "failed", ![id].attempts = attempts + 1]
  ELSE tbl

cleanupSyncedConsultsInclusive(tbl, t) ==
  LET cutoff == t - RetentionDays
      old == {id \in DOMAIN tbl :
                tbl[id].status = "synced" /\ tbl[id].createdAt <= cutoff}
  IN [k \in DOMAIN tbl \ old |-> tbl[k]]

\* cleanupSyncedConsults: delete the 'synced' records created before the
\* cutoff, 7 days before now.
cleanupSyncedConsults(tbl, t) ==
  LET cutoff == t - RetentionDays
      old == {id \in DOMAIN tbl :
                tbl[id].status = "synced" /\ tbl[id].createdAt < cutoff}
  IN [k \in DOMAIN tbl \ old |-> tbl[k]]

\* ------------------------------------------- the cache of server records

\* createdAt of a row whose source record has no created_at
Undefined == -1

\* The consults a response of consultsAPI.list can carry: the server's id
\* and creation time (the other fields are not followed).
ServerConsults == {[id |-> i, created_at |-> t] : i \in ServerIds, t \in Instants}

\* The schedule entries a response of scheduleAPI.list can carry.
ServerSchedules == {[id |-> i, day_of_week |-> 0] : i \in ServerIds}

\* The lists of records of S with distinct ids, the empty one included.
DistinctLists(S) ==
  {q \in UNION {[1..n -> S] : n \in 0..MaxServerId} :
     \A i, j \in 1..Len(q) : i # j => q[i].id # q[j].id}

ConsultLists == DistinctLists(ServerConsults)

ScheduleLists == DistinctLists(ServerSchedules)

\* consults.map((c) => ({id: c.id, ..., createdAt: c.created_at, data: c}))
ConsultRows(consults) ==
  [i \in 1..Len(consults) |->
     [id |-> consults[i].id, createdAt |-> consults[i].created_at, data |-> consults[i]]]

\* schedules.map((s) => ({id: s.id, ..., dayOfWeek: s.day_of_week, data: s}))
ScheduleRows(schedules) ==
  [i \in 1..Len(schedules) |->
     [id |-> schedules[i].id, dayOfWeek |-> schedules[i].day_of_week,
      data |-> schedules[i]]]

\* table.clear()
clear(tbl) == <<>>

\* table.bulkPut(rows): each row is stored under its id, in order, over
\* whatever the table holds under that id.
RECURSIVE bulkPut(_, _)
bulkPut(tbl, rows) ==
  IF rows = <<>> THEN tbl
  ELSE LET row == Head(rows)
       IN bulkPut([k \in DOMAIN tbl \cup {row.id} |->
                     IF k = row.id THEN row ELSE tbl[k]], Tail(rows))

\* cacheConsults(consults), run with no other call between its two store
\* calls: clear(), then bulkPut when the list is not empty.
cacheConsults(tbl, consults) ==
  IF Len(consults) > 0 THEN bulkPut(clear(tbl), ConsultRows(consults)) ELSE clear(tbl)

\* cacheSchedule(schedules), likewise.
cacheSchedule(tbl, schedules) ==
  IF Len(schedules) > 0 THEN bulkPut(clear(tbl), ScheduleRows(schedules)) ELSE clear(tbl)

\* The rows of the ids S from the end of the createdAt index to its start:
\* latest createdAt first, the larger id first among equal ones.
RECURSIVE Backwards(_, _)
Backwards(tbl, S) ==
  IF S = {} THEN <<>>
  ELSE LET m == CHOOSE x \in S : \A y \in S :
                  \/ tbl[y].createdAt < tbl[x].createdAt
                  \/ (tbl[y].createdAt = tbl[x].createdAt /\ y <= x)
       IN <<tbl[m]>> \o Backwards(tbl, S \ {m})

getCachedConsultsOldestFirst(tbl) ==
  LET entries == Backwards(tbl, {id \in DOMAIN tbl : tbl[id].createdAt # Undefined})
  IN [i \in 1..Len(entries) |-> entries[Len(entries) + 1 - i].data]

\* getCachedConsults(): orderBy('createdAt').reverse().toArray() walks the
\* createdAt index, which holds the rows that have a createdAt, backwards;
\* then entries.map((e) => e.data).
getCachedConsults(tbl) ==
  LET entries == Backwards(tbl, {id \in DOMAIN tbl : tbl[id].createdAt # Undefined})
  IN [i \in 1..Len(entries) |-> entries[i].data]

\* getCachedSchedule(): toArray() in primary-key order, then
\* entries.map((e) => e.data).
getCachedSchedule(tbl) ==
  LET keys == Ascending(DOMAIN tbl)
  IN [i \in 1..Len(keys) |-> tbl[keys[i]].data]

\* A call of cacheConsults or cacheSchedule not made yet.
IdleCall == [pc |-> "idle", ns |-> "none", input |-> <<>>, old |-> <<>>]

\* No getCachedConsults / getCachedSchedule call has returned yet.
NoRead == [ns |-> "none", result |-> <<>>]

\* ------------------------------------------------- the service worker

\* const CACHE_VERSION = 'v6'
CACHE_VERSION == "v6"

\* `ps-consult-${role}-${version}`
CacheName(role, version) == <<"ps-consult", role, version>>

STATIC_CACHE == CacheName("static", CACHE_VERSION)

API_CACHE == CacheName("api", CACHE_VERSION)

IMAGE_CACHE == CacheName("images", CACHE_VERSION)

\* The version of the build deployed before (its worker has CACHE_VERSION
\* 'v4') and the names of its caches.
PriorVersion == "v4"

PriorCaches == {CacheName(role, PriorVersion) : role \in {"static", "api", "images"}}

allowedCachesStaticOnly == {STATIC_CACHE}

\* const allowedCaches = [STATIC_CACHE, API_CACHE, IMAGE_CACHE]
allowedCaches == {STATIC_CACHE, API_CACHE, IMAGE_CACHE}

\* App shell to precache on install
PRECACHE_URLS ==
  {"/", "/index.html", "/manifest.json", "/unth-favicon.png",
   "/unth-icon-192.png", "/unth-logo.png"}

\* Same-origin GET requests under /api/, by path.
ApiUrls == {"/api/consults", "/api/schedule"}

\* What the network answers: a successful response with one of two
\* bodies, or a server error.
NetworkResponses ==
  {[status |-> 200, body |-> b] : b \in {"v1", "v2"}}
    \cup {[status |-> 500, body |-> "error"]}

\* response.ok
ok(response) == response.status \in 200..299

\* The response the shell documents are fetched with on install.
ShellResponse == [status |-> 200, body |-> "shell"]

\* new Response(JSON.stringify({detail: 'You are offline. ...'}), {status: 503, ...})
OfflineResponse == [status |-> 503, body |-> "offline"]

\* A GET request of the page for a URL of its own origin (fetch() or a
\* subresource: request.mode is not 'navigate').
Get(url) == [url |-> url, method |-> "GET", mode |-> "cors"]

\* No fetch event has been dispatched yet.
NoEvent ==
  [request |-> [url |-> "none", method |-> "none", mode |-> "none"],
   strategy |-> "none", cache |-> <<>>, calls |-> {}]

\* No fetch event has been answered yet.
NoResult == [url |-> "none", settled |-> "none", via |-> "none", response |-> <<>>]

\* caches.open(name): the cache is created when it does not exist.
open(cs, name) ==
  [n \in DOMAIN cs \cup {name} |-> IF n \in DOMAIN cs THEN cs[n] ELSE <<>>]

\* cache.put(request, response) on the cache opened under name; a cache
\* deleted since is no longer reachable by name.
put(cs, name, url, response) ==
  IF name \in DOMAIN cs
  THEN [cs EXCEPT ![name] =
          [k \in DOMAIN cs[name] \cup {url} |->
             IF k = url THEN response ELSE cs[name][k]]]
  ELSE cs

\* caches.match(request): the responses stored for the request in any
\* cache (the first in creation order is returned; the order is not
\* followed here).
match(cs, url) == {cs[n][url] : n \in {m \in DOMAIN cs : url \in DOMAIN cs[m]}}

networkFirstCatchRethrows(cs, url) ==
  IF match(cs, url) # {}
  THEN {[url |-> url, settled |-> "resolved", via |-> "cache", response |-> r] :
          r \in match(cs, url)}
  ELSE {[url |-> url, settled |-> "rejected", via |-> "offline", response |-> <<>>]}

\* networkFirst, catch branch: const cached = await caches.match(request);
\* if (cached) return cached; return new Response(..., {status: 503}).
networkFirstCatch(cs, url) ==
  IF match(cs, url) # {}
  THEN {[url |-> url, settled |-> "resolved", via |-> "cache", response |-> r] :
          r \in match(cs, url)}
  ELSE {[url |-> url, settled |-> "resolved", via |-> "offline",
         response |-> OfflineResponse]}

networkFirstPutsAll(cs, puts, cacheName, url, response) ==
  [caches |-> open(cs, cacheName),
   puts |-> puts \cup {[cache |-> cacheName, url |-> url, response |-> response]}]

\* networkFirst, try branch after fetch has resolved: if (response.ok)
\* { const cache = await caches.open(cacheName); cache.put(request,
\* response.clone()); } -- the put is not awaited.
networkFirstTry(cs, puts, cacheName, url, response) ==
  IF ok(response)
  THEN [caches |-> open(cs, cacheName),
        puts |-> puts \cup {[cache |-> cacheName, url |-> url, response |-> response]}]
  ELSE [caches |-> cs, puts |-> puts]

\* -------------------------------------------- the fetch listener

\* self.location.origin, and the origin of a third party.
SelfOrigin == "https://ps-consult"

OtherOrigin == "https://cdn"

\* The request URLs followed: one or two for each shape the listener
\* tells apart, the shapes that meet two rules included.
FetchUrls ==
  {"/api/consults", "/api/photo.png", "/unth-logo.png", "/uploads/wound.JPG",
   "/assets/index.js", "/index.html", "/dashboard", "https://cdn/lib.js"}

\* new URL(request.url): the origin, the first segment of the pathname when
\* there is a second one, and what follows the last dot of the pathname.
URL(url) ==
  CASE url = "/api/consults" ->
         [origin |-> SelfOrigin, prefix |-> "/api/", extension |-> ""]
    [] url = "/api/schedule" ->
         [origin |-> SelfOrigin, prefix |-> "/api/", extension |-> ""]
    [] url = "/api/photo.png" ->
         [origin |-> SelfOrigin, prefix |-> "/api/", extension |-> "png"]
    [] url = "/unth-logo.png" ->
         [origin |-> SelfOrigin, prefix |-> "/", extension |-> "png"]
    [] url = "/uploads/wound.JPG" ->
         [origin |-> SelfOrigin, prefix |-> "/uploads/", extension |-> "JPG"]
    [] url = "/assets/index.js" ->
         [origin |-> SelfOrigin, prefix |-> "/assets/", extension |-> "js"]
    [] url = "/index.html" ->
         [origin |-> SelfOrigin, prefix |-> "/", extension |-> "html"]
    [] url = "/dashboard" ->
         [origin |-> SelfOrigin, prefix |-> "/", extension |-> ""]
    [] url = "https://cdn/lib.js" ->
         [origin |-> OtherOrigin, prefix |-> "/", extension |-> "js"]
    [] url = "/" ->
         [origin |-> SelfOrigin, prefix |-> "/", extension |-> ""]
    [] url = "/manifest.json" ->
         [origin |-> SelfOrigin, prefix |-> "/", extension |-> "json"]
    [] url \in {"/unth-favicon.png", "/unth-icon-192.png"} ->
         [origin |-> SelfOrigin, prefix |-> "/", extension |-> "png"]

\* The i flag of a regular expression: letters compare in lower case.
toLowerCase(extension) ==
  CASE extension = "JPG" -> "jpg"
    [] OTHER -> extension

\* /\.(png|jpg|jpeg|svg|gif|webp|ico)$/i.test(url.pathname)
isImage(url) ==
  toLowerCase(URL(url).extension) \in
    {"png", "jpg", "jpeg", "svg", "gif", "webp", "ico"}

\* /\.(js|css|woff2?|ttf|eot)$/i.test(url.pathname)
isBuildAsset(url) ==
  toLowerCase(URL(url).extension) \in
    {"js", "css", "woff", "woff2", "ttf", "eot"}

\* The fetch events: any of the URLs, GET or not, a navigation or not.
FetchRequests ==
  [url : FetchUrls, method : {"GET", "POST"}, mode : {"navigate", "cors"}]

\* The listener returns before event.respondWith: the browser handles the
\* request as if there were no service worker.
PassThrough == [strategy |-> "none", cache |-> <<>>]

fetchListenerAnyMethod(request) ==
  IF URL(request.url).origin # SelfOrigin THEN PassThrough
  ELSE IF URL(request.url).prefix = "/api/"
    THEN [strategy |-> "networkFirst", cache |-> API_CACHE]
  ELSE IF isImage(request.url)
    THEN [strategy |-> "cacheFirst", cache |-> IMAGE_CACHE]
  ELSE IF isBuildAsset(request.url)
    THEN [strategy |-> "staleWhileRevalidate", cache |-> STATIC_CACHE]
  ELSE IF request.mode = "navigate"
    THEN [strategy |-> "navigate", cache |-> STATIC_CACHE]
  ELSE [strategy |-> "cacheFirst", cache |-> STATIC_CACHE]

fetchListenerImagesFirst(request) ==
  IF URL(request.url).origin # SelfOrigin THEN PassThrough
  ELSE IF request.method # "GET" THEN PassThrough
  ELSE IF isImage(request.url)
    THEN [strategy |-> "cacheFirst", cache |-> IMAGE_CACHE]
  ELSE IF URL(request.url).prefix = "/api/"
    THEN [strategy |-> "networkFirst", cache |-> API_CACHE]
  ELSE IF isBuildAsset(request.url)
    THEN [strategy |-> "staleWhileRevalidate", cache |-> STATIC_CACHE]
  ELSE IF request.mode = "navigate"
    THEN [strategy |-> "navigate", cache |-> STATIC_CACHE]
  ELSE [strategy |-> "cacheFirst", cache |-> STATIC_CACHE]

\* self.addEventListener('fetch', ...): the strategy the listener answers
\* the request with and the cache it hands to it, the first rule that
\* applies deciding.
fetchListener(request) ==
  IF URL(request.url).origin # SelfOrigin THEN PassThrough
  ELSE IF request.method # "GET" THEN PassThrough
  ELSE IF URL(request.url).prefix = "/api/"
    THEN [strategy |-> "networkFirst", cache |-> API_CACHE]
  ELSE IF isImage(request.url)
    THEN [strategy |-> "cacheFirst", cache |-> IMAGE_CACHE]
  ELSE IF isBuildAsset(request.url)
    THEN [strategy |-> "staleWhileRevalidate", cache |-> STATIC_CACHE]
  ELSE IF request.mode = "navigate"
    THEN [strategy |-> "navigate", cache |-> STATIC_CACHE]
  ELSE [strategy |-> "cacheFirst", cache |-> STATIC_CACHE]

\* fetch(request) rejects: the network is down or the server unreachable.
FetchError == [status |-> 0, body |-> "TypeError: Failed to fetch"]

\* What fetch(request) settles with.
NetworkOutcomes == NetworkResponses \cup {FetchError}

\* undefined where a Response is expected.
NoResponse == [status |-> 0, body |-> "undefined"]

\* new Response('', {status: 503, statusText: 'Offline'})
PlaceholderResponse == [status |-> 503, body |-> ""]

\* The promise handed to event.respondWith has settled with the response.
Resolved(url, via, response) ==
  [url |-> url, settled |-> "resolved", via |-> via, response |-> response]

\* networkFirst(request, cacheName) as a whole.
networkFirst(cs, puts, cacheName, url, net) ==
  IF net = FetchError
  THEN {[caches |-> cs, puts |-> puts, revalidate |-> {}, result |-> r,
         calls |-> {"fetch", "caches.match"}] :
          r \in networkFirstCatch(cs, url)}
  ELSE LET try == networkFirstTry(cs, puts, cacheName, url, net)
       IN {[caches |-> try.caches, puts |-> try.puts, revalidate |-> {},
            result |-> Resolved(url, "network", net),
            calls |-> IF ok(net) THEN {"fetch", "caches.open", "cache.put"}
                      ELSE {"fetch"}]}

cacheFirstRethrows(cs, puts, cacheName, url, net) ==
  IF match(cs, url) # {}
  THEN {[caches |-> cs, puts |-> puts, revalidate |-> {},
         result |-> Resolved(url, "cache", r), calls |-> {"caches.match"}] :
          r \in match(cs, url)}
  ELSE IF net = FetchError
  THEN {[caches |-> cs, puts |-> puts, revalidate |-> {},
         result |-> [url |-> url, settled |-> "rejected", via |-> "offline",
                     response |-> NoResponse],
         calls |-> {"caches.match", "fetch"}]}
  ELSE IF ok(net)
  THEN {[caches |-> open(cs, cacheName),
         puts |-> puts \cup {[cache |-> cacheName, url |-> url, response |-> net]},
         revalidate |-> {},
         result |-> Resolved(url, "network", net),
         calls |-> {"caches.match", "fetch", "caches.open", "cache.put"}]}
  ELSE {[caches |-> cs, puts |-> puts, revalidate |-> {},
         result |-> Resolved(url, "network", net),
         calls |-> {"caches.match", "fetch"}]}

\* async function cacheFirst(request, cacheName): caches.match(request)
\* looks in every cache; on a miss the network is fetched, an ok response
\* is put (not awaited) in the cache of the strategy, and a failed fetch is
\* answered with the placeholder.
cacheFirst(cs, puts, cacheName, url, net) ==
  IF match(cs, url) # {}
  THEN {[caches |-> cs, puts |-> puts, revalidate |-> {},
         result |-> Resolved(url, "cache", r), calls |-> {"caches.match"}] :
          r \in match(cs, url)}
  ELSE IF net = FetchError
  THEN {[caches |-> cs, puts |-> puts, revalidate |-> {},
         result |-> Resolved(url, "offline", PlaceholderResponse),
         calls |-> {"caches.match", "fetch"}]}
  ELSE IF ok(net)
  THEN {[caches |-> open(cs, cacheName),
         puts |-> puts \cup {[cache |-> cacheName, url |-> url, response |-> net]},
         revalidate |-> {},
         result |-> Resolved(url, "network", net),
         calls |-> {"caches.match", "fetch", "caches.open", "cache.put"}]}
  ELSE {[caches |-> cs, puts |-> puts, revalidate |-> {},
         result |-> Resolved(url, "network", net),
         calls |-> {"caches.match", "fetch"}]}

staleWhileRevalidateAwaits(cs, puts, cacheName, url, net) ==
  LET opened == open(cs, cacheName)
  IN IF net = FetchError
     THEN {[caches |-> opened, puts |-> puts, revalidate |-> {},
            result |-> IF url \in DOMAIN opened[cacheName]
                       THEN Resolved(url, "cache", opened[cacheName][url])
                       ELSE Resolved(url, "catch", NoResponse),
            calls |-> {"caches.open", "cache.match", "fetch"}]}
     ELSE {[caches |-> opened,
            puts |-> IF ok(net)
                     THEN puts \cup {[cache |-> cacheName, url |-> url,
                                      response |-> net]}
                     ELSE puts,
            revalidate |-> {},
            result |-> Resolved(url, "network", net),
            calls |-> {"caches.open", "cache.match", "fetch"}]}

\* async function staleWhileRevalidate(request, cacheName): the cache of
\* the strategy is opened and looked in; fetch is issued in every case;
\* with a cached response the function returns it and the fetch goes on in
\* the background; without one the function returns the fetch promise,
\* whose catch handler yields cached, which is undefined.
staleWhileRevalidate(cs, puts, cacheName, url, net) ==
  LET opened == open(cs, cacheName)
  IN IF url \in DOMAIN opened[cacheName]
     THEN {[caches |-> opened, puts |-> puts,
            revalidate |-> {[cache |-> cacheName, url |-> url]},
            result |-> Resolved(url, "cache", opened[cacheName][url]),
            calls |-> {"caches.open", "cache.match", "fetch"}]}
     ELSE IF net = FetchError
     THEN {[caches |-> opened, puts |-> puts, revalidate |-> {},
            result |-> Resolved(url, "catch", NoResponse),
            calls |-> {"caches.open", "cache.match", "fetch"}]}
     ELSE IF ok(net)
     THEN {[caches |-> opened,
            puts |-> puts \cup {[cache |-> cacheName, url |-> url, response |-> net]},
            revalidate |-> {},
            result |-> Resolved(url, "network", net),
            calls |-> {"caches.open", "cache.match", "fetch", "cache.put"}]}
     ELSE {[caches |-> opened, puts |-> puts, revalidate |-> {},
            result |-> Resolved(url, "network", net),
            calls |-> {"caches.open", "cache.match", "fetch"}]}

\* The navigation branch of the listener: fetch(request).then((response) =>
\* { const cloned = response.clone(); caches.open(STATIC_CACHE).then((c) =>
\* c.put('/index.html', cloned)); return response; }).catch(() =>
\* caches.match('/index.html')) -- whatever the status of the response.
navigate(cs, puts, cacheName, url, net) ==
  IF net = FetchError
  THEN IF match(cs, "/index.html") # {}
       THEN {[caches |-> cs, puts |-> puts, revalidate |-> {},
              result |-> Resolved(url, "cache", r),
              calls |-> {"fetch", "caches.match"}] :
               r \in match(cs, "/index.html")}
       ELSE {[caches |-> cs, puts |-> puts, revalidate |-> {},
              result |-> Resolved(url, "catch", NoResponse),
              calls |-> {"fetch", "caches.match"}]}
  ELSE {[caches |-> open(cs, cacheName),
         puts |-> puts \cup
                    {[cache |-> cacheName, url |-> "/index.html", response |-> net]},
         revalidate |-> {},
         result |-> Resolved(url, "network", net),
         calls |-> {"fetch", "caches.open", "cache.put"}]}

\* The navigation branch of the build before: fetch(request).then(
\* (response) => { caches.open(STATIC_CACHE).then((c) => { c.put(
\* '/index.html', response.clone()); }); return response; }).  The clone is
\* taken when caches.open has resolved, after the response was returned to
\* respondWith: with the body already locked by then clone() throws in the
\* detached promise and nothing is put; otherwise the put is issued.
navigatePrior(cs, puts, cacheName, url, net) ==
  IF net = FetchError
  THEN navigate(cs, puts, cacheName, url, net)
  ELSE navigate(cs, puts, cacheName, url, net) \cup
       {[caches |-> open(cs, cacheName), puts |-> puts, revalidate |-> {},
         result |-> Resolved(url, "network", net),
         calls |-> {"fetch", "caches.open"}]}

\* What handling the fetch event does, by the strategy the listener chose.
respondWith(chosen, cs, puts, url, net) ==
  CASE chosen.strategy = "networkFirst" ->
         networkFirst(cs, puts, chosen.cache, url, net)
    [] chosen.strategy = "cacheFirst" ->
         cacheFirst(cs, puts, chosen.cache, url, net)
    [] chosen.strategy = "staleWhileRevalidate" ->
         staleWhileRevalidate(cs, puts, chosen.cache, url, net)
    [] chosen.strategy = "navigate" ->
         navigate(cs, puts, chosen.cache, url, net)
    [] chosen.strategy = "none" ->
         {[caches |-> cs, puts |-> puts, revalidate |-> {},
           result |-> [url |-> url, settled |-> "none", via |-> "none",
                       response |-> NoResponse],
           calls |-> {}]}

\* ------------------------------------------------------ the sync engine

\* A slot with no syncAllPending call in it.
\* CreateConsultPage as mounted: useState(false), useState(null), no
\* onSubmit call in progress and none made.
IdlePage ==
  [pc |-> "idle", submitting |-> FALSE, result |-> "none", consult_id |-> <<>>,
   toast |-> "none", online |-> FALSE, create |-> "none", saves |-> 0,
   firstNew |-> 0, calls |-> 0]

\* No syncFn call has settled for any record.
NoTransmits == [id \in Ids |-> [ok |-> 0, failed |-> 0]]

\* await syncFn(entry.data) has resolved for the record id.
Accepted(log, id) == [log EXCEPT ![id].ok = @ + 1]

\* await syncFn(entry.data) has rejected for the record id.
Rejected(log, id) == [log EXCEPT ![id].failed = @ + 1]

IdlePass ==
  [pc |-> "idle", pending |-> <<>>, idx |-> 0, synced |-> 0, failed |-> 0,
   entry |-> -1, sent |-> <<>>, outcomes |-> <<>>, sweeps |-> 0, firstNew |-> 0,
   overtaken |-> FALSE, after |-> {}]

InFlight == {p \in Slots : passes[p].pc # "idle"}

LoopTargetSkipEmpty(list, i) ==
  IF i <= Len(list) THEN "transmit"
  ELSE IF Len(list) = 0 THEN "return" ELSE "cleanup"

\* for (const entry of pending) { ... } await cleanupSyncedConsults():
\* where control goes when the loop reaches position i of the list.
LoopTarget(list, i) ==
  IF i <= Len(list) THEN "transmit" ELSE "cleanup"

\* Control reaches position i of the loop: syncFn(entry.data) is called on
\* the i-th entry of the list when there is one.
EnterLoop(pass, i) ==
  [pass EXCEPT
     !.pc = LoopTarget(pass.pending, i),
     !.idx = i,
     !.sent = IF i <= Len(pass.pending) THEN Append(@, pass.pending[i]) ELSE @]

\* try { await syncFn(entry.data); await markConsultSynced(entry.id);
\* synced++; } and on to the next entry.
AfterSuccess(pass) ==
  EnterLoop([pass EXCEPT !.synced = @ + 1, !.outcomes = Append(@, "ok")], pass.idx + 1)

AfterFailureAborts(pass) ==
  [pass EXCEPT !.failed = @ + 1, !.entry = -1, !.pc = "cleanup",
               !.overtaken = FALSE, !.after = {}]

\* catch (err) { await markConsultFailed(entry.id); failed++; } and on to
\* the next entry.
AfterFailure(pass) ==
  EnterLoop([pass EXCEPT !.failed = @ + 1, !.entry = -1,
                         !.overtaken = FALSE, !.after = {}], pass.idx + 1)

\* The entry the loop is at.
Current(p) == passes[p].pending[passes[p].idx]

\* The passes whose markConsultFailed has read its record and then seen a
\* write run: their get has completed, so their update is already created.
Overtaken == {q \in Slots : passes[q].pc = "markFailed" /\ passes[q].overtaken}

\* A readwrite transaction runs after the transactions created before it:
\* a get still outstanding when a write runs has completed by then.
Overtake(pass) ==
  IF pass.pc = "markFailed" THEN [pass EXCEPT !.overtaken = TRUE] ELSE pass

\* The update of slot q has run: nothing waits for it any more.
Release(pass, q) == [pass EXCEPT !.after = @ \ {q}]

\* syncAllPending(syncFn) up to its first network call: the list is read
\* once, the counters start at 0.
StartedPass ==
  EnterLoop([IdlePass EXCEPT !.pending = getPendingConsults(offlineConsults),
                             !.firstNew = nextId], 1)

\* attemptSync(): if (syncing) return; setSyncing(true); syncAllPending(...)
\* The new pass takes the lowest free slot; with every slot taken the call
\* is outside the explored bound.
attemptSync ==
  IF closureSyncing
  THEN UNCHANGED <<syncing, passes>>
  ELSE /\ \E p \in Slots : passes[p].pc = "idle"
       /\ LET p == CHOOSE q \in Slots :
                     passes[q].pc = "idle" /\ \A r \in Slots : passes[r].pc = "idle" => q <= r
          IN passes' = [passes EXCEPT ![p] = StartedPass]
       /\ syncing' = TRUE

Init ==
  /\ offlineConsults = <<>>
  /\ nextId = 1
  /\ now = 0
  /\ isOnline \in BOOLEAN
  /\ syncing = FALSE
  /\ closureSyncing = FALSE
  /\ passes = [p \in Slots |-> IdlePass]
  /\ page = IdlePage
  /\ reachedSynced = {}
  /\ issued = <<>>
  /\ transmitLog = NoTransmits
  /\ cachedConsults = <<>>
  /\ cachedSchedule = <<>>
  /\ replaces = [c \in Calls |-> IdleCall]
  /\ lastRead = NoRead
  /\ swState = "installing"
  /\ swCaches = <<>>
  /\ swPuts = {}
  /\ swResult = NoResult
  /\ swFetches = 0
  /\ swDeleted = {}
  /\ swEvent = NoEvent
  /\ swRevalidate = {}

\* window 'online' event.
handleOnline ==
  /\ ~isOnline
  /\ isOnline' = TRUE
  /\ attemptSync
  /\ UNCHANGED <<offlineConsults, nextId, now, closureSyncing, reachedSynced, issued, transmitLog, cacheVars, swVars, pageVars>>

handleOfflineCancels ==
  /\ isOnline
  /\ isOnline' = FALSE
  /\ passes' = [p \in Slots |-> IdlePass]
  /\ UNCHANGED <<offlineConsults, nextId, now, syncing, closureSyncing, reachedSynced, issued, transmitLog, cacheVars, swVars, pageVars>>

\* window 'offline' event.
handleOffline ==
  /\ isOnline
  /\ isOnline' = FALSE
  /\ UNCHANGED <<offlineConsults, nextId, now, syncing, closureSyncing, passes, reachedSynced, issued, transmitLog, cacheVars, swVars, pageVars>>

\* navigator.serviceWorker 'message' event.
swListener(type) ==
  /\ IF type = "SYNC_CONSULTS" THEN attemptSync ELSE UNCHANGED <<syncing, passes>>
  /\ UNCHANGED <<offlineConsults, nextId, now, isOnline, closureSyncing, reachedSynced, issued, transmitLog, cacheVars, swVars, pageVars>>

\* Click on the Sync button of the layout: rendered while online,
\* disabled={syncing}, onClick={attemptSync}.
ManualSync ==
  /\ isOnline
  /\ ~closureSyncing
  /\ attemptSync
  /\ UNCHANGED <<offlineConsults, nextId, now, isOnline, closureSyncing, reachedSynced, issued, transmitLog, cacheVars, swVars, pageVars>>

\* React re-renders the provider after setSyncing: attemptSync is rebuilt
\* over the new value and the effect re-registers the listeners with it.
Rerender ==
  /\ closureSyncing # syncing
  /\ closureSyncing' = syncing
  /\ UNCHANGED <<offlineConsults, nextId, now, isOnline, syncing, passes, reachedSynced, issued, transmitLog, cacheVars, swVars, pageVars>>

\* saveOfflineConsult(consultData) when Math.random() gives the suffix r:
\* the entry is added under the next key and {id, clientId} is returned.
Enqueue(r) ==
  /\ nextId <= MaxEnq
  /\ offlineConsults' = Add(offlineConsults, nextId, NewEntry(now, r))
  /\ nextId' = nextId + 1
  /\ issued' = Append(issued, [id |-> nextId, clientId |-> NewEntry(now, r).clientId])
  /\ passes' = [q \in Slots |-> Overtake(passes[q])]
  /\ UNCHANGED <<now, isOnline, syncing, closureSyncing, reachedSynced, transmitLog, cacheVars, swVars, pageVars>>

\* saveOfflineConsult(consultData), followed for one value of the suffix:
\* reconciliation never reads the clientId.
saveOfflineConsult == Enqueue(0)

\* The clock advances.
Tick ==
  /\ \E t \in Instants : t > now /\ now' = t
  /\ UNCHANGED <<offlineConsults, nextId, isOnline, syncing, closureSyncing, passes, reachedSynced, issued, transmitLog, cacheVars, swVars, pageVars>>

\* await syncFn(entry.data) resolves: markConsultSynced(entry.id); synced++;
\* next entry.
TransmitOk(p) ==
  /\ passes[p].pc = "transmit"
  /\ offlineConsults' = markConsultSynced(offlineConsults, Current(p))
  /\ reachedSynced' =
       IF Current(p) \in DOMAIN offlineConsults
       THEN reachedSynced \cup {Current(p)} ELSE reachedSynced
  /\ passes' = [q \in Slots |->
       IF q = p THEN AfterSuccess(passes[p]) ELSE Overtake(passes[q])]
  /\ transmitLog' = Accepted(transmitLog, Current(p))
  /\ UNCHANGED <<nextId, now, isOnline, syncing, closureSyncing, issued, cacheVars, swVars, pageVars>>

\* await syncFn(entry.data) rejects: catch, markConsultFailed(entry.id)
\* reads the record.
TransmitFail(p) ==
  /\ passes[p].pc = "transmit"
  /\ passes' = [passes EXCEPT ![p] =
       [@ EXCEPT !.pc = "markFailed",
                 !.entry = ReadAttempts(offlineConsults, Current(p)),
                 !.outcomes = Append(@, "fail"),
                 !.after = Overtaken \ {p}]]
  /\ transmitLog' = Rejected(transmitLog, Current(p))
  /\ UNCHANGED <<offlineConsults, nextId, now, isOnline, syncing, closureSyncing, reachedSynced, issued, cacheVars, swVars, pageVars>>

\* markConsultFailed after its get: if (entry) update(...); then failed++;
\* next entry.
MarkFailed(p) ==
  /\ passes[p].pc = "markFailed"
  /\ passes[p].after = {}
  /\ offlineConsults' =
       IF passes[p].entry >= 0
       THEN markFailedUpdate(offlineConsults, Current(p), passes[p].entry)
       ELSE offlineConsults
  /\ passes' = [q \in Slots |->
       IF q = p THEN AfterFailure(passes[p])
       ELSE IF passes[p].entry >= 0 THEN Release(Overtake(passes[q]), p)
       ELSE Release(passes[q], p)]
  /\ UNCHANGED <<nextId, now, isOnline, syncing, closureSyncing, reachedSynced, issued, transmitLog, cacheVars, swVars, pageVars>>

\* await cleanupSyncedConsults()
Cleanup(p) ==
  /\ passes[p].pc = "cleanup"
  /\ offlineConsults' = cleanupSyncedConsults(offlineConsults, now)
  /\ passes' = [q \in Slots |->
       IF q = p THEN [passes[p] EXCEPT !.pc = "return", !.sweeps = @ + 1]
       ELSE Overtake(passes[q])]
  /\ UNCHANGED <<nextId, now, isOnline, syncing, closureSyncing, reachedSynced, issued, transmitLog, cacheVars, swVars, pageVars>>

\* return { synced, failed }; attemptSync's finally: setSyncing(false).
Finish(p) ==
  /\ passes[p].pc = "return"
  /\ passes' = [passes EXCEPT ![p] = IdlePass]
  /\ syncing' = FALSE
  /\ UNCHANGED <<offlineConsults, nextId, now, isOnline, closureSyncing, reachedSynced, issued, transmitLog, cacheVars, swVars, pageVars>>

Next ==
  \/ handleOnline
  \/ handleOffline
  \/ \E type \in MessageTypes : swListener(type)
  \/ ManualSync
  \/ Rerender
  \/ saveOfflineConsult
  \/ Tick
  \/ \E p \in Slots : TransmitOk(p)
  \/ \E p \in Slots : TransmitFail(p)
  \/ \E p \in Slots : MarkFailed(p)
  \/ \E p \in Slots : Cleanup(p)
  \/ \E p \in Slots : Finish(p)

Spec == Init /\ [][Next]_vars

\* ------------------------------------------------ reconciliation, fairly

\* transmit succeeds on the record id.
TransmitOkOn(p, id) == TransmitOk(p) /\ Current(p) = id

\* The scheduling under which convergence is claimed: React re-renders,
\* every store call and every pass completes, wake messages keep coming,
\* and a payload that is transmitted again and again is accepted in the end.
Fairness ==
  /\ WF_vars(Rerender)
  /\ SF_vars(swListener("SYNC_CONSULTS"))
  /\ \A p \in Slots :
       /\ WF_vars(MarkFailed(p))
       /\ WF_vars(Cleanup(p))
       /\ WF_vars(Finish(p))
       /\ WF_vars(TransmitOk(p) \/ TransmitFail(p))
       /\ \A id \in Ids : SF_vars(TransmitOkOn(p, id))

\* number of records enqueued under the fair scheduling
MaxFairEnq == 2

\* Enqueues, wake messages and the passes they start.
FairNext ==
  \/ nextId <= MaxFairEnq /\ saveOfflineConsult
  \/ swListener("SYNC_CONSULTS")
  \/ Rerender
  \/ \E p \in Slots : TransmitOk(p)
  \/ \E p \in Slots : TransmitFail(p)
  \/ \E p \in Slots : MarkFailed(p)
  \/ \E p \in Slots : Cleanup(p)
  \/ \E p \in Slots : Finish(p)

FairSpec == Init /\ [][FairNext]_vars /\ Fairness

\* ------------------------------------------------------ going offline

\* The application online, the connection lost for good at some moment:
\* passes start while online only, so that a pass in flight after the
\* 'offline' event was started before it.
OfflineNext ==
  \/ saveOfflineConsult
  \/ handleOffline
  \/ isOnline /\ swListener("SYNC_CONSULTS")
  \/ ManualSync
  \/ Rerender
  \/ \E p \in Slots : TransmitOk(p)
  \/ \E p \in Slots : TransmitFail(p)
  \/ \E p \in Slots : MarkFailed(p)
  \/ \E p \in Slots : Cleanup(p)
  \/ \E p \in Slots : Finish(p)

OfflineInit == Init /\ isOnline

OfflineSpec == OfflineInit /\ [][OfflineNext]_vars

\* ------------------------------------- a store left by earlier sessions

\* number of records already in the store when the application starts
MaxStored == 3

\* The records an earlier session can have left: pending and never tried,
\* synced, or failed after one attempt, created up to the last day.
StoredRecords ==
  {[NewEntry(t, 0) EXCEPT !.status = st, !.attempts = IF st = "failed" THEN 1 ELSE 0] :
     st \in {"pending", "synced", "failed"}, t \in 0..(MaxNow - RetentionDays + 1)}

\* The application starts on the last day over such a store.
StoredInit ==
  /\ \E n \in 0..MaxStored :
       /\ offlineConsults \in [1..n -> StoredRecords]
       /\ \A i, j \in 1..n :
            i < j => offlineConsults[i].createdAt <= offlineConsults[j].createdAt
       /\ nextId = n + 1
  /\ reachedSynced =
       {id \in DOMAIN offlineConsults : offlineConsults[id].status = "synced"}
  /\ issued = [id \in DOMAIN offlineConsults |->
                 [id |-> id, clientId |-> offlineConsults[id].clientId]]
  /\ transmitLog = [id \in Ids |->
       IF id \in DOMAIN offlineConsults
       THEN [ok |-> IF offlineConsults[id].status = "synced" THEN 1 ELSE 0,
             failed |-> offlineConsults[id].attempts]
       ELSE [ok |-> 0, failed |-> 0]]
  /\ now = MaxNow
  /\ isOnline = TRUE
  /\ syncing = FALSE
  /\ closureSyncing = FALSE
  /\ passes = [p \in Slots |-> IdlePass]
  /\ page = IdlePage
  /\ cachedConsults = <<>>
  /\ cachedSchedule = <<>>
  /\ replaces = [c \in Calls |-> IdleCall]
  /\ lastRead = NoRead
  /\ swState = "installing"
  /\ swCaches = <<>>
  /\ swPuts = {}
  /\ swResult = NoResult
  /\ swFetches = 0
  /\ swDeleted = {}
  /\ swEvent = NoEvent
  /\ swRevalidate = {}

\* It reconciles on wake messages.
StoredNext ==
  \/ swListener("SYNC_CONSULTS")
  \/ Rerender
  \/ \E p \in Slots : TransmitOk(p)
  \/ \E p \in Slots : TransmitFail(p)
  \/ \E p \in Slots : MarkFailed(p)
  \/ \E p \in Slots : Cleanup(p)
  \/ \E p \in Slots : Finish(p)

StoredSpec == StoredInit /\ [][StoredNext]_vars

\* ------------------------------------------- enqueues, suffix by suffix

\* Enqueues with every value of the random suffix, the clock, and passes
\* whose transmissions succeed, which mark and sweep the records.
EnqueueNext ==
  \/ \E r \in Draws : Enqueue(r)
  \/ Tick
  \/ swListener("SYNC_CONSULTS")
  \/ Rerender
  \/ \E p \in Slots : TransmitOk(p)
  \/ \E p \in Slots : Cleanup(p)
  \/ \E p \in Slots : Finish(p)

\* The application starts online over an empty store.
EnqueueInit == Init /\ isOnline

EnqueueSpec == EnqueueInit /\ [][EnqueueNext]_vars

\* ------------------------------------------- refreshes of the two caches

\* The next call of cacheConsults / cacheSchedule.
NextCall == CHOOSE c \in Calls : replaces[c].pc = "idle" /\ \A d \in Calls : replaces[d].pc = "idle" => c <= d

\* The calls whose bulkPut is still to come, on one table.
Replacing(ns) == {c \in Calls : replaces[c].pc = "bulkPut" /\ replaces[c].ns = ns}

\* The calls that have returned, on one table.
Replaced(ns) == {c \in Calls : replaces[c].pc = "done" /\ replaces[c].ns = ns}

\* A call begins: await table.clear() is issued; with an empty list the
\* call returns after it, otherwise bulkPut follows when clear has completed.
Begin(ns, tbl, list) ==
  /\ \E c \in Calls : replaces[c].pc = "idle"
  /\ replaces' = [replaces EXCEPT ![NextCall] =
       [pc |-> IF Len(list) > 0 THEN "bulkPut" ELSE "done",
        ns |-> ns, input |-> list, old |-> tbl]]

\* fetchConsults (ConsultListPage): cacheConsults(res.data.consults), not
\* awaited, up to the end of its clear().
cacheConsultsClear(consults) ==
  /\ Begin("consults", cachedConsults, consults)
  /\ cachedConsults' = clear(cachedConsults)
  /\ UNCHANGED <<cachedSchedule, lastRead, queueVars, swVars, pageVars>>

\* cacheConsults: await db.cachedConsults.bulkPut(...), and return.
cacheConsultsBulkPut(c) ==
  /\ c \in Replacing("consults")
  /\ cachedConsults' = bulkPut(cachedConsults, ConsultRows(replaces[c].input))
  /\ replaces' = [replaces EXCEPT ![c].pc = "done"]
  /\ UNCHANGED <<cachedSchedule, lastRead, queueVars, swVars, pageVars>>

\* load (SchedulePage): cacheSchedule(schedRes.data), not awaited, up to
\* the end of its clear().
cacheScheduleClear(schedules) ==
  /\ Begin("schedule", cachedSchedule, schedules)
  /\ cachedSchedule' = clear(cachedSchedule)
  /\ UNCHANGED <<cachedConsults, lastRead, queueVars, swVars, pageVars>>

\* cacheSchedule: await db.cachedSchedule.bulkPut(...), and return.
cacheScheduleBulkPut(c) ==
  /\ c \in Replacing("schedule")
  /\ cachedSchedule' = bulkPut(cachedSchedule, ScheduleRows(replaces[c].input))
  /\ replaces' = [replaces EXCEPT ![c].pc = "done"]
  /\ UNCHANGED <<cachedConsults, lastRead, queueVars, swVars, pageVars>>

\* await getCachedConsults() in fetchConsults, the dashboard or the
\* notification check.
ReadConsults ==
  /\ lastRead' = [ns |-> "consults", result |-> getCachedConsults(cachedConsults)]
  /\ UNCHANGED <<cachedConsults, cachedSchedule, replaces, queueVars, swVars, pageVars>>

\* await getCachedSchedule() in load.
ReadSchedule ==
  /\ lastRead' = [ns |-> "schedule", result |-> getCachedSchedule(cachedSchedule)]
  /\ UNCHANGED <<cachedConsults, cachedSchedule, replaces, queueVars, swVars, pageVars>>

\* Refreshes from server responses and reads of the caches, in any order.
CacheNext ==
  \/ \E consults \in ConsultLists : cacheConsultsClear(consults)
  \/ \E c \in Calls : cacheConsultsBulkPut(c)
  \/ \E schedules \in ScheduleLists : cacheScheduleClear(schedules)
  \/ \E c \in Calls : cacheScheduleBulkPut(c)
  \/ ReadConsults
  \/ ReadSchedule

\* The application starts online with empty caches.
CacheInit == Init /\ isOnline

CacheSpec == CacheInit /\ [][CacheNext]_vars

\* ------------------------------------------ the service worker at work

InstallOneByOne ==
  /\ swState = "installing"
  /\ \E stored \in SUBSET PRECACHE_URLS :
       swCaches' = [open(swCaches, STATIC_CACHE) EXCEPT ![STATIC_CACHE] =
         [k \in DOMAIN open(swCaches, STATIC_CACHE)[STATIC_CACHE] \cup stored |->
            IF k \in stored THEN ShellResponse
            ELSE open(swCaches, STATIC_CACHE)[STATIC_CACHE][k]]]
  /\ swState' = "installed"
  /\ UNCHANGED <<swPuts, swResult, swFetches, swDeleted, swEvent, swRevalidate,
                 queueVars, cacheVars, pageVars>>

\* 'install' event: caches.open(STATIC_CACHE).then((cache) =>
\* cache.addAll(PRECACHE_URLS)) resolves; self.skipWaiting().
Install ==
  /\ swState = "installing"
  /\ swCaches' = [open(swCaches, STATIC_CACHE) EXCEPT ![STATIC_CACHE] =
       [k \in DOMAIN open(swCaches, STATIC_CACHE)[STATIC_CACHE] \cup PRECACHE_URLS |->
          IF k \in PRECACHE_URLS THEN ShellResponse
          ELSE open(swCaches, STATIC_CACHE)[STATIC_CACHE][k]]]
  /\ swState' = "installed"
  /\ UNCHANGED <<swPuts, swResult, swFetches, swDeleted, swEvent, swRevalidate,
                 queueVars, cacheVars, pageVars>>

\* 'install' event: addAll rejects (one of the URLs cannot be fetched):
\* the cache has been opened, nothing is added, the worker is discarded.
InstallFails ==
  /\ swState = "installing"
  /\ swCaches' = open(swCaches, STATIC_CACHE)
  /\ swState' = "redundant"
  /\ UNCHANGED <<swPuts, swResult, swFetches, swDeleted, swEvent, swRevalidate,
                 queueVars, cacheVars, pageVars>>

\* 'activate' event: caches.keys(), then caches.delete(k) for every key
\* not in allowedCaches; self.clients.claim().  Fetch events wait for the
\* end of activation, so nothing runs between the deletions.
Activate ==
  /\ swState = "installed"
  /\ swCaches' = [n \in DOMAIN swCaches \cap allowedCaches |-> swCaches[n]]
  /\ swDeleted' = DOMAIN swCaches \ allowedCaches
  /\ swState' = "activated"
  /\ UNCHANGED <<swPuts, swResult, swFetches, swEvent, swRevalidate, queueVars,
                 cacheVars, pageVars>>

\* 'fetch' event for a same-origin GET under /api/:
\* event.respondWith(networkFirst(request, API_CACHE)), and fetch(request)
\* resolves with response.
NetworkFirstResponds(url, response) ==
  /\ swState = "activated"
  /\ swFetches < MaxFetch
  /\ LET try == networkFirstTry(swCaches, swPuts, API_CACHE, url, response)
     IN /\ swCaches' = try.caches
        /\ swPuts' = try.puts
  /\ swResult' = [url |-> url, settled |-> "resolved", via |-> "network",
                  response |-> response]
  /\ swFetches' = swFetches + 1
  /\ swEvent' = [request |-> Get(url), strategy |-> "networkFirst",
                 cache |-> API_CACHE,
                 calls |-> IF ok(response)
                           THEN {"fetch", "caches.open", "cache.put"}
                           ELSE {"fetch"}]
  /\ UNCHANGED <<swState, swDeleted, swRevalidate, queueVars, cacheVars, pageVars>>

\* The same event when fetch(request) rejects: the catch branch.
NetworkFirstFails(url) ==
  /\ swState = "activated"
  /\ swFetches < MaxFetch
  /\ swResult' \in networkFirstCatch(swCaches, url)
  /\ swFetches' = swFetches + 1
  /\ swEvent' = [request |-> Get(url), strategy |-> "networkFirst",
                 cache |-> API_CACHE, calls |-> {"fetch", "caches.match"}]
  /\ UNCHANGED <<swState, swCaches, swPuts, swDeleted, swRevalidate, queueVars,
                 cacheVars, pageVars>>

\* A cache.put issued by networkFirst lands.
PutLands(p) ==
  /\ p \in swPuts
  /\ swCaches' = put(swCaches, p.cache, p.url, p.response)
  /\ swPuts' = swPuts \ {p}
  /\ UNCHANGED <<swState, swResult, swFetches, swDeleted, swEvent, swRevalidate,
                 queueVars, cacheVars, pageVars>>

\* What a cache can hold when the worker of this build is installed: a
\* response stored earlier for each of some of the API requests.
StoredResponses ==
  {<<>>} \cup {[k \in {url} |-> [status |-> 200, body |-> "v1"]] : url \in ApiUrls}

\* The worker of this build is installed over the caches left by the
\* build before it and, possibly, by an earlier worker of the same version.
\* Both builds route every request under /api/ to networkFirst with the API
\* cache, so no other cache holds a response for such a request.
SwInit ==
  /\ \E names \in SUBSET (PriorCaches \cup {API_CACHE, IMAGE_CACHE}) :
       /\ swCaches \in [names -> StoredResponses]
       /\ \A n \in names : n[2] # "api" => swCaches[n] = <<>>
  /\ swState = "installing"
  /\ swPuts = {}
  /\ swResult = NoResult
  /\ swFetches = 0
  /\ swDeleted = {}
  /\ swEvent = NoEvent
  /\ swRevalidate = {}
  /\ offlineConsults = <<>>
  /\ nextId = 1
  /\ now = 0
  /\ isOnline = TRUE
  /\ syncing = FALSE
  /\ closureSyncing = FALSE
  /\ passes = [p \in Slots |-> IdlePass]
  /\ page = IdlePage
  /\ reachedSynced = {}
  /\ issued = <<>>
  /\ transmitLog = NoTransmits
  /\ cachedConsults = <<>>
  /\ cachedSchedule = <<>>
  /\ replaces = [c \in Calls |-> IdleCall]
  /\ lastRead = NoRead

SwNext ==
  \/ Install
  \/ InstallFails
  \/ Activate
  \/ \E url \in ApiUrls : \E response \in NetworkResponses :
       NetworkFirstResponds(url, response)
  \/ \E url \in ApiUrls : NetworkFirstFails(url)
  \/ \E p \in swPuts : PutLands(p)

SwSpec == SwInit /\ [][SwNext]_vars

\* ------------------------------------------- the fetch listener at work

\* A 'fetch' event of a controlled page reaches the listener of the
\* activated worker; fetch(request), where the strategy calls it and awaits
\* it, settles with net.
FetchEvent(request, net) ==
  /\ swState = "activated"
  /\ swFetches < MaxFetch
  /\ LET chosen == fetchListener(request)
     IN \E h \in respondWith(chosen, swCaches, swPuts, request.url, net) :
          /\ swCaches' = h.caches
          /\ swPuts' = h.puts
          /\ swRevalidate' = swRevalidate \cup
               {[cache |-> f.cache, url |-> f.url, event |-> swFetches + 1] :
                  f \in h.revalidate}
          /\ swResult' = h.result
          /\ swEvent' = [request |-> request, strategy |-> chosen.strategy,
                         cache |-> chosen.cache, calls |-> h.calls]
  /\ swFetches' = swFetches + 1
  /\ UNCHANGED <<swState, swDeleted, queueVars, cacheVars, pageVars>>

\* staleWhileRevalidate, the fetch left in the background resolves:
\* .then((response) => { if (response.ok) cache.put(request,
\* response.clone()); return response; }).
RevalidateResolves(f, response) ==
  /\ f \in swRevalidate
  /\ swPuts' = IF ok(response)
               THEN swPuts \cup {[cache |-> f.cache, url |-> f.url,
                                  response |-> response]}
               ELSE swPuts
  /\ swRevalidate' = swRevalidate \ {f}
  /\ UNCHANGED <<swState, swCaches, swResult, swFetches, swDeleted, swEvent,
                 queueVars, cacheVars, pageVars>>

\* The fetch left in the background rejects: .catch(() => cached), and
\* nobody awaits the promise.
RevalidateFails(f) ==
  /\ f \in swRevalidate
  /\ swRevalidate' = swRevalidate \ {f}
  /\ UNCHANGED <<swState, swCaches, swPuts, swResult, swFetches, swDeleted,
                 swEvent, queueVars, cacheVars, pageVars>>

\* What an earlier run of a worker has left in a cache: the shell document
\* in the static cache of the build before, and one response in each cache
\* of this version.
EarlierContent(name) ==
  CASE name = CacheName("static", PriorVersion) ->
         [k \in {"/index.html"} |-> ShellResponse]
    [] name = STATIC_CACHE ->
         [k \in {"/assets/index.js"} |-> [status |-> 200, body |-> "v1"]]
    [] name = IMAGE_CACHE ->
         [k \in {"/uploads/wound.JPG"} |-> [status |-> 200, body |-> "v1"]]
    [] name = API_CACHE ->
         [k \in {"/api/consults"} |-> [status |-> 200, body |-> "v1"]]

\* The worker of this build is installed over some of these caches.
FetchInit ==
  /\ \E names \in SUBSET ({CacheName("static", PriorVersion)} \cup allowedCaches) :
       swCaches = [n \in names |-> EarlierContent(n)]
  /\ swState = "installing"
  /\ swPuts = {}
  /\ swResult = NoResult
  /\ swFetches = 0
  /\ swDeleted = {}
  /\ swEvent = NoEvent
  /\ swRevalidate = {}
  /\ offlineConsults = <<>>
  /\ nextId = 1
  /\ now = 0
  /\ isOnline = TRUE
  /\ syncing = FALSE
  /\ closureSyncing = FALSE
  /\ passes = [p \in Slots |-> IdlePass]
  /\ page = IdlePage
  /\ reachedSynced = {}
  /\ issued = <<>>
  /\ transmitLog = NoTransmits
  /\ cachedConsults = <<>>
  /\ cachedSchedule = <<>>
  /\ replaces = [c \in Calls |-> IdleCall]
  /\ lastRead = NoRead

FetchNext ==
  \/ Install
  \/ InstallFails
  \/ Activate
  \/ \E request \in FetchRequests : \E net \in NetworkOutcomes :
       FetchEvent(request, net)
  \/ \E f \in swRevalidate : \E response \in NetworkResponses :
       RevalidateResolves(f, response)
  \/ \E f \in swRevalidate : RevalidateFails(f)
  \/ \E p \in swPuts : PutLands(p)

FetchSpec == FetchInit /\ [][FetchNext]_vars

\* ------------------------------- the worker of the build before at work

PriorStatic == CacheName("static", PriorVersion)

\* The pages are controlled by the worker of the build before until the
\* worker of this build has activated: a navigation reaches its listener,
\* whose rules are those of fetchListener.
PriorNavigate(request, net) ==
  /\ swState \in {"installing", "installed"}
  /\ PriorStatic \in DOMAIN swCaches
  /\ swFetches < MaxFetch
  /\ fetchListener(request).strategy = "navigate"
  /\ \E h \in navigatePrior(swCaches, swPuts, PriorStatic, request.url, net) :
       /\ swCaches' = h.caches
       /\ swPuts' = h.puts
       /\ swResult' = h.result
       /\ swEvent' = [request |-> request, strategy |-> "navigate",
                      cache |-> PriorStatic, calls |-> h.calls]
  /\ swFetches' = swFetches + 1
  /\ UNCHANGED <<swState, swDeleted, swRevalidate, queueVars, cacheVars, pageVars>>

\* The worker of the build before is active, its shell precached, when the
\* worker of this build starts installing.
PriorInit ==
  /\ \E names \in SUBSET (PriorCaches \ {PriorStatic}) :
       swCaches = [n \in names \cup {PriorStatic} |->
                     IF n = PriorStatic
                     THEN [k \in PRECACHE_URLS |-> ShellResponse]
                     ELSE <<>>]
  /\ swState = "installing"
  /\ swPuts = {}
  /\ swResult = NoResult
  /\ swFetches = 0
  /\ swDeleted = {}
  /\ swEvent = NoEvent
  /\ swRevalidate = {}
  /\ offlineConsults = <<>>
  /\ nextId = 1
  /\ now = 0
  /\ isOnline = TRUE
  /\ syncing = FALSE
  /\ closureSyncing = FALSE
  /\ passes = [p \in Slots |-> IdlePass]
  /\ page = IdlePage
  /\ reachedSynced = {}
  /\ issued = <<>>
  /\ transmitLog = NoTransmits
  /\ cachedConsults = <<>>
  /\ cachedSchedule = <<>>
  /\ replaces = [c \in Calls |-> IdleCall]
  /\ lastRead = NoRead

PriorNext ==
  \/ Install
  \/ InstallFails
  \/ Activate
  \/ \E request \in FetchRequests : \E net \in NetworkOutcomes :
       PriorNavigate(request, net)
  \/ \E p \in swPuts : PutLands(p)

PriorSpec == PriorInit /\ [][PriorNext]_vars

\* --------------------------------------------- the store rejecting calls

\* number of records enqueued while store calls can reject
MaxRejectEnq == 2

\* number of settled syncFn calls for a record up to which the update of
\* markConsultFailed is followed rejecting (a record left pending by it is
\* transmitted again by every later pass)
MaxSettled == 1

\* try { await syncFn(entry.data); await markConsultSynced(entry.id); ... }
\* when syncFn resolves and the update rejects: control goes to the catch
\* of the same try, where markConsultFailed(entry.id) reads the record.
MarkSyncedRejects(p) ==
  /\ passes[p].pc = "transmit"
  /\ passes' = [passes EXCEPT ![p] =
       [@ EXCEPT !.pc = "markFailed",
                 !.entry = ReadAttempts(offlineConsults, Current(p)),
                 !.outcomes = Append(@, "ok"),
                 !.after = Overtaken \ {p}]]
  /\ transmitLog' = Accepted(transmitLog, Current(p))
  /\ UNCHANGED <<offlineConsults, nextId, now, isOnline, syncing, closureSyncing, reachedSynced, issued, cacheVars, swVars, pageVars>>

\* catch (err) { await markConsultFailed(entry.id); ... } when the update
\* rejects: nothing catches it inside syncAllPending, which rejects.
MarkFailedRejects(p) ==
  /\ passes[p].pc = "markFailed"
  /\ passes[p].after = {}
  /\ transmitLog[Current(p)].ok + transmitLog[Current(p)].failed <= MaxSettled
  /\ passes' = [q \in Slots |->
       IF q = p THEN [passes[p] EXCEPT !.pc = "thrown", !.entry = -1,
                                       !.overtaken = FALSE, !.after = {}]
       ELSE Release(passes[q], p)]
  /\ UNCHANGED <<offlineConsults, nextId, now, isOnline, syncing, closureSyncing, reachedSynced, issued, transmitLog, cacheVars, swVars, pageVars>>

\* await cleanupSyncedConsults() rejects: syncAllPending rejects.
CleanupRejects(p) ==
  /\ passes[p].pc = "cleanup"
  /\ passes' = [passes EXCEPT ![p] = [@ EXCEPT !.pc = "thrown"]]
  /\ UNCHANGED <<offlineConsults, nextId, now, isOnline, syncing, closureSyncing, reachedSynced, issued, transmitLog, cacheVars, swVars, pageVars>>

\* attemptSync: catch (err) { console.error(...) } finally
\* { setSyncing(false); ... } after syncAllPending has rejected.
Caught(p) ==
  /\ passes[p].pc = "thrown"
  /\ passes' = [passes EXCEPT ![p] = IdlePass]
  /\ syncing' = FALSE
  /\ UNCHANGED <<offlineConsults, nextId, now, isOnline, closureSyncing, reachedSynced, issued, transmitLog, cacheVars, swVars, pageVars>>

\* Reconciliation over a store whose calls can reject.
RejectNext ==
  \/ nextId <= MaxRejectEnq /\ saveOfflineConsult
  \/ handleOnline
  \/ handleOffline
  \/ swListener("SYNC_CONSULTS")
  \/ Rerender
  \/ \E p \in Slots : TransmitOk(p)
  \/ \E p \in Slots : TransmitFail(p)
  \/ \E p \in Slots : MarkFailed(p)
  \/ \E p \in Slots : Cleanup(p)
  \/ \E p \in Slots : Finish(p)
  \/ \E p \in Slots : MarkSyncedRejects(p)
  \/ \E p \in Slots : MarkFailedRejects(p)
  \/ \E p \in Slots : CleanupRejects(p)
  \/ \E p \in Slots : Caught(p)

RejectSpec == Init /\ [][RejectNext]_vars

\* The scheduling under which the flag is claimed to clear: React
\* re-renders, and every call a pass awaits settles one way or the other
\* (the API client gives up a request after its timeout).
RejectFairness ==
  /\ WF_vars(Rerender)
  /\ \A p \in Slots :
       /\ WF_vars(TransmitOk(p) \/ TransmitFail(p) \/ MarkSyncedRejects(p))
       /\ WF_vars(MarkFailed(p) \/ MarkFailedRejects(p))
       /\ WF_vars(Cleanup(p) \/ CleanupRejects(p))
       /\ WF_vars(Finish(p))
       /\ WF_vars(Caught(p))

FairRejectSpec == Init /\ [][RejectNext]_vars /\ RejectFairness

\* --------------------------------------------------- the consult form

\* handleSubmit(onSubmit) on the form, shown while result is null with its
\* button disabled while submitting: setSubmitting(true); if (isOnline)
\* consultsAPI.create(data) is called, else saveOfflineConsult(data).
onSubmit ==
  /\ page.pc = "idle"
  /\ ~page.submitting
  /\ page.result = "none"
  /\ page' = [IdlePage EXCEPT !.pc = IF isOnline THEN "create" ELSE "save",
                              !.submitting = TRUE,
                              !.online = isOnline,
                              !.firstNew = nextId,
                              !.calls = 1]
  /\ UNCHANGED <<queueVars, cacheVars, swVars>>

\* await consultsAPI.create(data) resolves: setResult({type: 'online', ...}),
\* toast.success; finally setSubmitting(false).
CreateResolves ==
  /\ page.pc = "create"
  /\ page' = [page EXCEPT !.pc = "idle", !.submitting = FALSE,
                          !.create = "resolved", !.result = "online",
                          !.consult_id = <<"server">>, !.toast = "submitted"]
  /\ UNCHANGED <<queueVars, cacheVars, swVars>>

CreateRejectsGivesUp ==
  /\ page.pc = "create"
  /\ page' = [page EXCEPT !.pc = "idle", !.submitting = FALSE,
                          !.create = "rejected", !.toast = "failed"]
  /\ UNCHANGED <<queueVars, cacheVars, swVars>>

\* await consultsAPI.create(data) rejects: catch (err), where
\* saveOfflineConsult(data) is called.
CreateRejects ==
  /\ page.pc = "create"
  /\ page' = [page EXCEPT !.pc = "catch", !.create = "rejected"]
  /\ UNCHANGED <<queueVars, cacheVars, swVars>>

\* await saveOfflineConsult(data) resolves, in the try or in the catch: the
\* entry is in the store, setResult({type: 'offline', data: {consult_id:
\* clientId, ...}}), the toast of the branch; finally setSubmitting(false).
SaveResolves ==
  /\ page.pc \in {"save", "catch"}
  /\ nextId <= MaxEnq
  /\ offlineConsults' = Add(offlineConsults, nextId, NewEntry(now, 0))
  /\ nextId' = nextId + 1
  /\ issued' = Append(issued, [id |-> nextId, clientId |-> NewEntry(now, 0).clientId])
  /\ passes' = [q \in Slots |-> Overtake(passes[q])]
  /\ page' = [page EXCEPT !.pc = "idle", !.submitting = FALSE,
                          !.saves = @ + 1, !.result = "offline",
                          !.consult_id = NewEntry(now, 0).clientId,
                          !.toast = IF page.pc = "save" THEN "saved offline"
                                    ELSE "server error, saved offline"]
  /\ UNCHANGED <<now, isOnline, syncing, closureSyncing, reachedSynced, transmitLog, cacheVars, swVars>>

\* await saveOfflineConsult(data) rejects, nothing added: in the try,
\* control goes to the catch, which calls saveOfflineConsult(data) again; in
\* the catch, toast.error('Failed to save consult. ...'); finally
\* setSubmitting(false).
SaveRejects ==
  /\ page.pc \in {"save", "catch"}
  /\ page' = IF page.pc = "save"
             THEN [page EXCEPT !.pc = "catch", !.saves = @ + 1]
             ELSE [page EXCEPT !.pc = "idle", !.submitting = FALSE,
                               !.saves = @ + 1, !.toast = "failed"]
  /\ UNCHANGED <<queueVars, cacheVars, swVars>>

\* The button of the result view: setResult(null); reset().
SubmitAnother ==
  /\ page.result # "none"
  /\ page' = [page EXCEPT !.result = "none", !.consult_id = <<>>]
  /\ UNCHANGED <<queueVars, cacheVars, swVars>>

\* The form used while the connection comes and goes and the passes
\* started by the 'online' events run, every transmit of theirs succeeding.
SubmitNext ==
  \/ onSubmit
  \/ CreateResolves
  \/ CreateRejects
  \/ SaveResolves
  \/ SaveRejects
  \/ SubmitAnother
  \/ handleOnline
  \/ handleOffline
  \/ Rerender
  \/ \E p \in Slots : TransmitOk(p)
  \/ \E p \in Slots : Cleanup(p)
  \/ \E p \in Slots : Finish(p)

SubmitSpec == Init /\ [][SubmitNext]_vars

\* ---------------------------------------------------------------- claims

Range(q) == {q[i] : i \in 1..Len(q)}

Count(q, x) == Cardinality({i \in 1..Len(q) : q[i] = x})

\* A step in which slot p goes from idle to holding a new pass.
Starts(p) == passes[p].pc = "idle" /\ passes'[p].pc # "idle"

\* C1: at most one reconciliation pass is in flight at any time, whatever
\* the interleaving of 'online' events, SYNC_CONSULTS messages and clicks.
C1_AtMostOnePass == Cardinality(InFlight) <= 1

\* C2: a pass that starts after the earlier passes have ended selects every
\* record whose status is failed, as it selects the pending ones.
C2_FailedIsRetried ==
  [][\A p \in Slots :
       (Starts(p) /\ InFlight = {}) =>
         \A id \in DOMAIN offlineConsults :
           offlineConsults[id].status \in {"pending", "failed"} =>
             id \in Range(passes'[p].pending)]_vars

\* C3: under the fair scheduling, every record in the queue is eventually
\* marked synced.
C3_Convergence ==
  \A id \in Ids : (id \in DOMAIN offlineConsults) ~> (id \in reachedSynced)

C5_NoneLeftUntouched ==
  \A p \in Slots :
    passes[p].pc = "return" =>
      \A id \in Range(passes[p].pending) :
        \/ id \notin DOMAIN offlineConsults
        \/ offlineConsults[id].status = "synced"
        \/ offlineConsults[id].status = "failed" /\ offlineConsults[id].attempts >= 1

\* A completed pass over three entries: one synced, one failed with
\* attempts 1.
C5_Witness ==
  \E p \in Slots :
    /\ passes[p].pc = "return"
    /\ Len(passes[p].pending) = 3
    /\ \E i, j \in Range(passes[p].pending) \cap DOMAIN offlineConsults :
         /\ offlineConsults[i].status = "synced"
         /\ offlineConsults[j].status = "failed"
         /\ offlineConsults[j].attempts = 1

\* C6: getPendingConsults returns exactly the pending records, each once,
\* oldest-created first, and every pass calls transmit on the entries of its
\* snapshot in that order.
C6_Fifo ==
  /\ LET list == getPendingConsults(offlineConsults)
     IN /\ Range(list) =
             {id \in DOMAIN offlineConsults : offlineConsults[id].status = "pending"}
        /\ \A i, j \in 1..Len(list) :
             i < j => /\ list[i] < list[j]
                      /\ offlineConsults[list[i]].createdAt
                           <= offlineConsults[list[j]].createdAt
  /\ \A i, j \in DOMAIN offlineConsults :
       i < j => offlineConsults[i].createdAt <= offlineConsults[j].createdAt
  /\ \A p \in Slots :
       /\ \A i, j \in 1..Len(passes[p].pending) :
            i < j => passes[p].pending[i] < passes[p].pending[j]
       /\ Len(passes[p].sent) <= Len(passes[p].pending)
       /\ passes[p].sent = SubSeq(passes[p].pending, 1, Len(passes[p].sent))

\* A pass over three entries created on different days whose first transmit
\* failed and which went on to the third entry.
C6_Witness ==
  \E p \in Slots :
    /\ Len(passes[p].pending) = 3
    /\ Len(passes[p].sent) = 3
    /\ passes[p].outcomes = <<"fail", "ok">>
    /\ \E i, j \in DOMAIN offlineConsults :
         /\ i < j
         /\ offlineConsults[i].createdAt < offlineConsults[j].createdAt
         /\ offlineConsults[j].status = "pending"

\* C7: the number of records getPendingConsults returns is the number of
\* enqueues minus the number of records that have reached synced.
C7_PendingCount ==
  Len(getPendingConsults(offlineConsults)) = (nextId - 1) - Cardinality(reachedSynced)

\* C8: a record enqueued while a pass is running is not transmitted by that
\* pass and stays pending with attempts 0 until the pass ends.
C8_EnqueuedMidPassDeferred ==
  \A p \in InFlight :
    \A id \in passes[p].firstNew..(nextId - 1) :
      /\ id \notin Range(passes[p].sent)
      /\ id \in DOMAIN offlineConsults
      /\ offlineConsults[id].status = "pending"
      /\ offlineConsults[id].attempts = 0

\* A step in which the pass in slot p runs its retention sweep.
Sweeps(p) == passes[p].pc = "cleanup" /\ passes'[p].pc = "return"

\* C9: a sweep removes exactly the records that are synced and were created
\* more than 7 days before it, and leaves the other records as they were;
\* no step removes a record that is not synced.
C9_SweepExact ==
  [][/\ \A p \in Slots :
          Sweeps(p) =>
            \A id \in DOMAIN offlineConsults :
              /\ id \in DOMAIN offlineConsults' <=>
                   ~(/\ offlineConsults[id].status = "synced"
                     /\ now - offlineConsults[id].createdAt > RetentionDays)
              /\ id \in DOMAIN offlineConsults' =>
                   offlineConsults'[id] = offlineConsults[id]
     /\ \A id \in DOMAIN offlineConsults :
          id \notin DOMAIN offlineConsults' =>
            /\ \E p \in Slots : Sweeps(p)
            /\ offlineConsults[id].status = "synced"]_vars

\* After a sweep: a synced record was removed, a synced record 6 days old
\* is still there, and so is a failed record 8 days old.
C9_Witness ==
  /\ \E p \in Slots : passes[p].pc = "return"
  /\ reachedSynced \ DOMAIN offlineConsults # {}
  /\ \E id \in DOMAIN offlineConsults :
       /\ offlineConsults[id].status = "synced"
       /\ now - offlineConsults[id].createdAt = RetentionDays - 1
  /\ \E id \in DOMAIN offlineConsults :
       /\ offlineConsults[id].status = "failed"
       /\ now - offlineConsults[id].createdAt = RetentionDays + 1

\* C10: a pass is at its sweep only after the loop went through the whole
\* snapshot, has not swept before then, and returns having swept once.
C10_SweepOncePerPass ==
  \A p \in Slots :
    /\ passes[p].pc \in {"transmit", "markFailed"} => passes[p].sweeps = 0
    /\ passes[p].pc = "cleanup" =>
         passes[p].sweeps = 0 /\ Len(passes[p].outcomes) = Len(passes[p].pending)
    /\ passes[p].pc = "return" => passes[p].sweeps = 1

\* Two passes about to return, each having swept once: one over an empty
\* snapshot, one whose every transmit failed.
C10_Witness ==
  \E p, q \in Slots :
    /\ passes[p].pc = "return" /\ passes[q].pc = "return"
    /\ passes[p].pending = <<>> /\ passes[p].sweeps = 1
    /\ passes[q].pending # <<>> /\ passes[q].synced = 0 /\ passes[q].sweeps = 1

\* The outcome recorded by pass p for its i-th transmission of record id.
Outcome(p, i, id, o) ==
  /\ i \in 1..Len(passes[p].outcomes)
  /\ passes[p].sent[i] = id
  /\ passes[p].outcomes[i] = o

\* C11: markConsultSynced is idempotent: on the store of every reachable
\* state and for every localId, present or not, applying it twice gives the
\* same store as applying it once.
C11_MarkSyncedIdempotent ==
  \A id \in Ids \cup {nextId} :
    markConsultSynced(markConsultSynced(offlineConsults, id), id)
      = markConsultSynced(offlineConsults, id)

\* Two passes have both delivered the same record and marked it synced.
C11_Witness ==
  \E id \in DOMAIN offlineConsults : \E p, q \in Slots :
    /\ p # q
    /\ offlineConsults[id].status = "synced"
    /\ \E i \in 1..Len(passes[p].outcomes) : Outcome(p, i, id, "ok")
    /\ \E j \in 1..Len(passes[q].outcomes) : Outcome(q, j, id, "ok")

\* Slot p has finished the markConsultFailed of its i-th entry.
PastEntry(p, i) ==
  passes[p].pc # "idle" /\ (passes[p].idx > i \/ passes[p].pc \in {"cleanup", "return"})

\* C12: markConsultFailed reads the record and then, if it exists, sets its
\* status to failed and its attempts to one more than the call read; for a
\* localId with no record (at the read, or by the time of the write) the
\* store is left as it is.  No call creates a record or touches another one.
C12_MarkFailed ==
  [][\A p \in Slots :
       LET id == Current(p)
           read == passes'[p].entry
           held == passes[p].entry
       IN /\ (passes[p].pc = "transmit" /\ passes'[p].pc = "markFailed") =>
               /\ offlineConsults' = offlineConsults
               /\ read = IF id \in DOMAIN offlineConsults
                         THEN offlineConsults[id].attempts ELSE -1
          /\ (passes[p].pc = "markFailed" /\ passes'[p].pc # "markFailed") =>
               /\ DOMAIN offlineConsults' = DOMAIN offlineConsults
               /\ \A k \in DOMAIN offlineConsults \ {id} :
                    offlineConsults'[k] = offlineConsults[k]
               /\ (id \in DOMAIN offlineConsults /\ held >= 0) =>
                    /\ offlineConsults'[id].status = "failed"
                    /\ offlineConsults'[id].attempts = held + 1
                    /\ offlineConsults'[id].createdAt = offlineConsults[id].createdAt
               /\ (id \notin DOMAIN offlineConsults \/ held < 0) =>
                    offlineConsults' = offlineConsults
               /\ passes'[p].failed = passes[p].failed + 1]_vars

\* One pass has run markConsultFailed on a record that a sweep had removed,
\* and a record that exists has been marked failed.
C12_Witness ==
  /\ \E p \in Slots : \E i \in 1..Len(passes[p].outcomes) : \E id \in Ids :
       /\ Outcome(p, i, id, "fail")
       /\ PastEntry(p, i)
       /\ id \notin DOMAIN offlineConsults
  /\ \E p \in Slots : \E i \in 1..Len(passes[p].outcomes) :
     \E id \in DOMAIN offlineConsults :
       /\ Outcome(p, i, id, "fail")
       /\ PastEntry(p, i)
       /\ offlineConsults[id].status = "failed"
       /\ offlineConsults[id].attempts >= 1

\* A step of saveOfflineConsult.
Enqueues == nextId' = nextId + 1

\* What saveOfflineConsult does apart from the choice of the clientId:
\* exactly one record is added, under a localId that no earlier call was
\* given (whether or not that record is still in the store), with status
\* pending, attempts 0, createdAt the time of the call and the clientId
\* embedded in the payload; {id, clientId} of that record is returned; no
\* existing record changes.
EnqueueEffect ==
  LET id == nextId
      rec == offlineConsults'[id]
      ret == issued'[Len(issued')]
  IN /\ id \notin DOMAIN offlineConsults
     /\ DOMAIN offlineConsults' = DOMAIN offlineConsults \cup {id}
     /\ \A k \in DOMAIN offlineConsults : offlineConsults'[k] = offlineConsults[k]
     /\ \A i \in 1..Len(issued) : issued[i].id # id
     /\ rec.status = "pending"
     /\ rec.attempts = 0
     /\ rec.createdAt = now
     /\ rec.data.client_id = rec.clientId
     /\ issued' = Append(issued, ret)
     /\ ret = [id |-> id, clientId |-> rec.clientId]

Statuses == {"pending", "synced", "failed"}

\* C14: in every reachable state each record of the queue has one status
\* out of pending, synced, failed and attempts >= 0, and no step (enqueue,
\* markConsultSynced, markConsultFailed, sweep, any step of a pass) lowers
\* the attempts of a record that it leaves in the store.
C14_StatusAndAttempts ==
  /\ [](\A id \in DOMAIN offlineConsults :
          /\ offlineConsults[id].status \in Statuses
          /\ offlineConsults[id].attempts \in Nat)
  /\ [][\A id \in DOMAIN offlineConsults \cap DOMAIN offlineConsults' :
          offlineConsults'[id].attempts >= offlineConsults[id].attempts]_vars

\* Two passes have failed on the same record one after the other: its
\* attempts went 0, 1, 2.
C14_Witness ==
  \E id \in DOMAIN offlineConsults : \E p, q \in Slots :
    /\ p # q
    /\ offlineConsults[id].status = "failed"
    /\ offlineConsults[id].attempts = 2
    /\ \E i \in 1..Len(passes[p].outcomes) : Outcome(p, i, id, "fail") /\ PastEntry(p, i)
    /\ \E j \in 1..Len(passes[q].outcomes) : Outcome(q, j, id, "fail") /\ PastEntry(q, j)

\* The table in which a call running alone leaves its list.
TableOf(c) ==
  IF replaces[c].ns = "consults"
  THEN cacheConsults(<<>>, replaces[c].input)
  ELSE cacheSchedule(<<>>, replaces[c].input)

C16_ReplacementNotPatching ==
  [][\A c \in Calls :
       (replaces[c].pc # "done" /\ replaces'[c].pc = "done") =>
         /\ replaces'[c].ns = "consults" =>
              /\ cachedConsults' = cacheConsults(<<>>, replaces'[c].input)
              /\ cachedSchedule' = cachedSchedule
         /\ replaces'[c].ns = "schedule" =>
              /\ cachedSchedule' = cacheSchedule(<<>>, replaces'[c].input)
              /\ cachedConsults' = cachedConsults
         /\ offlineConsults' = offlineConsults]_vars

\* The table of ns.
Table(ns) == IF ns = "consults" THEN cachedConsults ELSE cachedSchedule

\* The complete sets a read of ns may return: the list of a call made on
\* ns, or nothing as long as no call on ns has stored anything.
CompleteSets(ns) ==
  {Range(replaces[c].input) : c \in Replacing(ns) \cup Replaced(ns)}
    \cup (IF Replaced(ns) = {} THEN {{}} ELSE {})

\* C17: a replacement is atomic for the whole table.  A read that comes
\* while a call is between its clear and its bulkPut returns a complete
\* set, the one held before or the one being stored, never an emptied or
\* a mixed table; and once the calls on a table have all returned, the
\* table holds exactly the list of one of them.
C17_AtomicReplace ==
  /\ [][(lastRead' # lastRead /\ Replacing(lastRead'.ns) # {}) =>
          Range(lastRead'.result) \in CompleteSets(lastRead'.ns)]_vars
  /\ [](\A ns \in {"consults", "schedule"} :
          (Replacing(ns) = {} /\ Replaced(ns) # {}) =>
            \E c \in Replaced(ns) : Table(ns) = TableOf(c))

\* The three cache names built from the current CACHE_VERSION.
CurrentCaches == {CacheName(role, CACHE_VERSION) : role \in {"static", "api", "images"}}

\* C18: cache versioning.  Once the worker is activated, that is once the
\* sweep of the 'activate' event has completed, no cache exists under a
\* name other than the three built from the current CACHE_VERSION, so none
\* of a prior version; and the sweep leaves every current-version cache
\* that existed before it in place with the same contents.
C18_CacheVersioning ==
  /\ [](swState = "activated" =>
          /\ DOMAIN swCaches \subseteq CurrentCaches
          /\ DOMAIN swCaches \cap PriorCaches = {})
  /\ [][(swState = "installed" /\ swState' = "activated") =>
          \A n \in DOMAIN swCaches \cap CurrentCaches :
            /\ n \in DOMAIN swCaches'
            /\ swCaches'[n] = swCaches[n]]_vars

\* The sweep has deleted caches of the prior version and kept the shell
\* cache filled on install and an API cache that held a response before.
C18_Witness ==
  /\ swState = "activated"
  /\ swFetches = 0
  /\ swDeleted \cap PriorCaches # {}
  /\ STATIC_CACHE \in DOMAIN swCaches
  /\ DOMAIN swCaches[STATIC_CACHE] = PRECACHE_URLS
  /\ API_CACHE \in DOMAIN swCaches
  /\ swCaches[API_CACHE] # <<>>

\* A fetch event under /api/ is answered from the network.
Responds == swFetches' = swFetches + 1 /\ swResult'.via = "network"

\* A fetch event under /api/ is answered after fetch has failed.
FallsBack == swFetches' = swFetches + 1 /\ swResult'.via # "network"

\* The API cache holds the response under the request.
Holds(cs, url, response) ==
  /\ API_CACHE \in DOMAIN cs
  /\ url \in DOMAIN cs[API_CACHE]
  /\ cs[API_CACHE][url] = response

\* C19 (as claimed): a GET under /api/ with the network available is
\* answered with the network's response, and afterwards (the puts issued
\* having landed) the API cache holds that response under the request, so
\* that a later request for it with the network down is answered with it.
C19_NetworkFirstStores ==
  /\ [](swResult.via = "network" =>
          /\ swResult.settled = "resolved"
          /\ swPuts = {} => Holds(swCaches, swResult.url, swResult.response))
  /\ [][(FallsBack /\ swResult.via = "network" /\ swPuts = {}
            /\ swResult'.url = swResult.url) =>
          swResult'.response = swResult.response]_vars

\* C19 (amended): the request is answered with the network's response;
\* when that response is ok, a put of it into the API cache is issued, and
\* when that put lands the cache holds the response under the request;
\* a response that is not ok is returned and changes no cache.  A later
\* request with the network down is answered with what the API cache then
\* holds for it.
C19_NetworkFirst ==
  /\ [][Responds =>
          /\ swResult'.settled = "resolved"
          /\ IF ok(swResult'.response)
             THEN /\ API_CACHE \in DOMAIN swCaches'
                  /\ [cache |-> API_CACHE, url |-> swResult'.url,
                      response |-> swResult'.response] \in swPuts'
             ELSE /\ swCaches' = swCaches
                  /\ swPuts' = swPuts]_vars
  /\ [][\A p \in swPuts \ swPuts' :
          /\ Holds(swCaches', p.url, p.response)
          /\ \A n \in DOMAIN swCaches : \A k \in DOMAIN swCaches[n] :
               (n # p.cache \/ k # p.url) =>
                 (n \in DOMAIN swCaches' /\ k \in DOMAIN swCaches'[n]
                    /\ swCaches'[n][k] = swCaches[n][k])]_vars
  /\ [][(FallsBack /\ API_CACHE \in DOMAIN swCaches
            /\ swResult'.url \in DOMAIN swCaches[API_CACHE]) =>
          /\ swResult'.via = "cache"
          /\ swResult'.response = swCaches[API_CACHE][swResult'.url]]_vars

\* A request was answered from the network with a response that nothing
\* else could have stored, and a later request for it with the network
\* down has been answered with that response from the API cache.
C19_Witness ==
  /\ swResult.via = "cache"
  /\ swResult.response = [status |-> 200, body |-> "v2"]
  /\ Holds(swCaches, swResult.url, swResult.response)
  /\ swPuts = {}

\* C20: when the network fetch of a GET under /api/ fails, the request is
\* answered with the response cached for it if there is one, and otherwise
\* with a synthesized response of status 503; in neither case does
\* networkFirst reject.
C20_NetworkFirstFallback ==
  /\ [](swResult.settled # "rejected")
  /\ [][FallsBack =>
          /\ swResult'.settled = "resolved"
          /\ IF match(swCaches, swResult'.url) # {}
             THEN /\ swResult'.via = "cache"
                  /\ swResult'.response \in match(swCaches, swResult'.url)
             ELSE /\ swResult'.via = "offline"
                  /\ swResult'.response = OfflineResponse
                  /\ swResult'.response.status = 503]_vars

\* The fetch of a request that no cache holds has failed and was answered
\* with the 503 response, while the API cache holds a response for the
\* other request.
C20_Witness ==
  /\ swResult.settled = "resolved"
  /\ swResult.via = "offline"
  /\ swResult.response.status = 503
  /\ match(swCaches, swResult.url) = {}
  /\ \E url \in ApiUrls \ {swResult.url} : match(swCaches, url) # {}

\* A step in which a fetch event is dispatched to the listener.
Dispatched == swFetches' = swFetches + 1

\* The request is cross-origin or its method is not GET.
NotSameOriginGet(request) ==
  URL(request.url).origin # SelfOrigin \/ request.method # "GET"

\* C21: for a request that is cross-origin or not a GET the listener
\* supplies no response and makes no call on a cache, so that no cache, no
\* put under way and no background fetch changes; every put the fetch
\* handler issues is issued for a same-origin GET request, and every key
\* in a cache is a URL of the worker's own origin.
C21_PassThrough ==
  /\ [][(Dispatched /\ NotSameOriginGet(swEvent'.request)) =>
          /\ swEvent'.strategy = "none"
          /\ swEvent'.calls = {}
          /\ swResult'.settled = "none"
          /\ swCaches' = swCaches
          /\ swPuts' = swPuts
          /\ swRevalidate' = swRevalidate]_vars
  /\ [][(Dispatched /\ swPuts' # swPuts) =>
          ~NotSameOriginGet(swEvent'.request)]_vars
  /\ [](\A p \in swPuts : URL(p.url).origin = SelfOrigin)
  /\ [](\A n \in DOMAIN swCaches : \A k \in DOMAIN swCaches[n] :
          URL(k).origin = SelfOrigin)

\* A POST to a path under /api/ has passed through although the API cache
\* holds a response for that very URL, stored by an earlier GET.
C21_Witness ==
  /\ swEvent.request.method = "POST"
  /\ swEvent.request.url = "/api/consults"
  /\ swEvent.strategy = "none"
  /\ swResult.settled = "none"
  /\ API_CACHE \in DOMAIN swCaches
  /\ "/api/consults" \in DOMAIN swCaches[API_CACHE]
  /\ swCaches[API_CACHE]["/api/consults"].body = "v2"

\* The rules of the classification, each with the rules before it excluded.
UnderApi(request) == URL(request.url).prefix = "/api/"

ImageRule(request) == ~UnderApi(request) /\ isImage(request.url)

AssetRule(request) ==
  ~UnderApi(request) /\ ~isImage(request.url) /\ isBuildAsset(request.url)

NavigationRule(request) ==
  /\ ~UnderApi(request) /\ ~isImage(request.url) /\ ~isBuildAsset(request.url)
  /\ request.mode = "navigate"

DefaultRule(request) ==
  /\ ~UnderApi(request) /\ ~isImage(request.url) /\ ~isBuildAsset(request.url)
  /\ request.mode # "navigate"

CacheFirstStep == Dispatched /\ swEvent'.strategy = "cacheFirst"

\* A put that was under way has landed in this step.
Landed == swPuts \ swPuts'

\* C23: cache-first, with a cached response for the request: it is
\* returned and fetch is not called; with none: fetch is called, a
\* response that is ok is put in the cache of the strategy (and is there
\* once the put has landed) and the response is returned; when the fetch
\* fails the empty placeholder of status 503 is returned, not an exception.
C23_CacheFirst ==
  /\ [][CacheFirstStep =>
          LET url == swEvent'.request.url
          IN /\ swResult'.settled = "resolved"
             /\ swResult'.url = url
             /\ IF match(swCaches, url) # {}
                THEN /\ swResult'.via = "cache"
                     /\ swResult'.response \in match(swCaches, url)
                     /\ "fetch" \notin swEvent'.calls
                     /\ swPuts' = swPuts
                ELSE /\ "fetch" \in swEvent'.calls
                     /\ swResult'.via \in {"network", "offline"}
                     /\ swResult'.via = "offline" =>
                          /\ swResult'.response = PlaceholderResponse
                          /\ swResult'.response.status = 503
                          /\ swResult'.response.body = ""
                          /\ swPuts' = swPuts
                     /\ (swResult'.via = "network" /\ ok(swResult'.response)) =>
                          /\ swEvent'.cache \in DOMAIN swCaches'
                          /\ [cache |-> swEvent'.cache, url |-> url,
                              response |-> swResult'.response] \in swPuts']_vars
  /\ [][\A p \in Landed :
          p.cache \in {IMAGE_CACHE, STATIC_CACHE} =>
            /\ p.cache \in DOMAIN swCaches'
            /\ p.url \in DOMAIN swCaches'[p.cache]
            /\ swCaches'[p.cache][p.url] = p.response]_vars

\* An image that no cache held was fetched and stored in the image cache,
\* and a later request for it has been answered from there without a fetch.
C23_Witness ==
  /\ swEvent.strategy = "cacheFirst"
  /\ swEvent.cache = IMAGE_CACHE
  /\ swEvent.request.url = "/uploads/wound.JPG"
  /\ swResult.via = "cache"
  /\ swResult.response = [status |-> 200, body |-> "v2"]
  /\ "fetch" \notin swEvent.calls

\* A step in which a fetch event is answered by staleWhileRevalidate.
RevalidateStep == Dispatched /\ swEvent'.strategy = "staleWhileRevalidate"

\* The cache of the strategy holds a response for the URL.
Hit(cs, cacheName, url) == cacheName \in DOMAIN cs /\ url \in DOMAIN cs[cacheName]

\* A fetch left in the background has settled in this step.
Settled == swRevalidate \ swRevalidate'

\* C24: stale-while-revalidate with a cached response: it is returned at
\* once, with the fetch issued and left in the background; when that fetch
\* resolves with an ok response a put of it in the same cache under the
\* same URL is issued, and once that put has landed the cache holds it, so
\* that the next request is answered with it; when the background fetch
\* fails, the response returned, the caches and the puts are unchanged and
\* nothing is rejected.
C24_StaleWhileRevalidate ==
  /\ [][(RevalidateStep /\ Hit(swCaches, swEvent'.cache, swEvent'.request.url)) =>
          LET url == swEvent'.request.url
          IN /\ swResult' = Resolved(url, "cache", swCaches[swEvent'.cache][url])
             /\ "fetch" \in swEvent'.calls
             /\ \E f \in swRevalidate' \ swRevalidate :
                  f.cache = swEvent'.cache /\ f.url = url
             /\ swCaches' = swCaches
             /\ swPuts' = swPuts]_vars
  /\ [][\A f \in Settled :
          /\ swResult' = swResult
          /\ swCaches' = swCaches
          /\ \A p \in swPuts' \ swPuts :
               p.cache = f.cache /\ p.url = f.url /\ ok(p.response)]_vars
  /\ [][\A p \in Landed :
          p.cache = STATIC_CACHE =>
            Hit(swCaches', p.cache, p.url) /\ swCaches'[p.cache][p.url] = p.response]_vars
  /\ [](swEvent.strategy = "staleWhileRevalidate" => swResult.settled = "resolved")

\* One request for the script has been answered with the response the
\* static cache held, and the fetch left in the background has since put a
\* fresher response in its place.
C24_Witness ==
  /\ swFetches = 1
  /\ swEvent.strategy = "staleWhileRevalidate"
  /\ swResult = Resolved("/assets/index.js", "cache", [status |-> 200, body |-> "v1"])
  /\ swRevalidate = {}
  /\ swPuts = {}
  /\ swCaches[STATIC_CACHE]["/assets/index.js"] = [status |-> 200, body |-> "v2"]

\* A stale-while-revalidate step with no response for the URL in the cache
\* of the strategy.
RevalidateMiss ==
  RevalidateStep /\ ~Hit(swCaches, swEvent'.cache, swEvent'.request.url)

\* C25: stale-while-revalidate with no cached entry waits on the fetch, and
\* when the fetch fails the outcome is a rejection, not a resolved value.
C25_RevalidateMissRejects ==
  [][RevalidateMiss =>
       /\ "fetch" \in swEvent'.calls
       /\ swRevalidate' = swRevalidate
       /\ swResult'.via # "network" => swResult'.settled = "rejected"]_vars

\* C26: every GET classified cache-first or stale-while-revalidate is
\* answered with a response object, whatever the cache holds and whatever
\* the network does: never a rejection and never undefined.
C26_AlwaysAResponse ==
  swEvent.strategy \in {"cacheFirst", "staleWhileRevalidate"} =>
    /\ swResult.settled = "resolved"
    /\ swResult.response # NoResponse
    /\ swResult.response.status \in 100..599

\* A step in which a navigation is answered by the navigation branch.
NavigationStep == Dispatched /\ swEvent'.strategy = "navigate"

\* C27: for a navigation the network is always tried first; when the fetch
\* resolves its response is returned and a put of it under /index.html in
\* the static cache is issued, which replaces the cached shell document
\* when it lands; when the fetch fails the shell document cached last is
\* returned.
C27_Navigation ==
  /\ [][NavigationStep =>
          /\ "fetch" \in swEvent'.calls
          /\ swResult'.settled = "resolved"
          /\ IF swResult'.via = "network"
             THEN /\ swResult'.response \in NetworkResponses
                  /\ [cache |-> swEvent'.cache, url |-> "/index.html",
                      response |-> swResult'.response] \in swPuts'
             ELSE /\ swPuts' = swPuts
                  /\ Hit(swCaches, swEvent'.cache, "/index.html")
                  /\ swResult'.response = swCaches[swEvent'.cache]["/index.html"]]_vars
  /\ [][\A p \in Landed :
          (p.url = "/index.html" /\ p.cache \in DOMAIN swCaches) =>
            /\ Hit(swCaches', p.cache, "/index.html")
            /\ swCaches'[p.cache]["/index.html"] = p.response]_vars

\* Every URL of the precache manifest is stored in the static cache.
Precached(cs) ==
  STATIC_CACHE \in DOMAIN cs /\ PRECACHE_URLS \subseteq DOMAIN cs[STATIC_CACHE]

\* C28: the worker is installed, activates and is handed fetch events only
\* with every URL of the precache manifest stored in its static cache;
\* when the precache fails nothing of the manifest is stored, the worker
\* is discarded, never activates and is never handed a fetch event.
C28_AllOrNothingPrecache ==
  /\ [](swState \in {"installed", "activated"} => Precached(swCaches))
  /\ [][swState' = "activated" =>
          swState \in {"installed", "activated"} /\ Precached(swCaches)]_vars
  /\ [][Dispatched => swState = "activated" /\ Precached(swCaches)]_vars
  /\ [][(swState = "installing" /\ swState' = "redundant") =>
          /\ STATIC_CACHE \in DOMAIN swCaches'
          /\ \A k \in PRECACHE_URLS :
               k \in DOMAIN swCaches'[STATIC_CACHE] =>
                 /\ Hit(swCaches, STATIC_CACHE, k)
                 /\ swCaches'[STATIC_CACHE][k] = swCaches[STATIC_CACHE][k]]_vars
  /\ [][swState = "redundant" => UNCHANGED swVars]_vars

\* The precache has failed: the worker is discarded with its static cache
\* opened and nothing of the manifest in it, and has answered no request.
C28_Witness ==
  /\ swState = "redundant"
  /\ STATIC_CACHE \in DOMAIN swCaches
  /\ DOMAIN swCaches[STATIC_CACHE] \cap PRECACHE_URLS = {}
  /\ swFetches = 0
  /\ swResult = NoResult

\* The slots in which a pass starts in this step.
Started == {p \in Slots : Starts(p)}

\* C29: a transition to online sets isOnline and calls attemptSync once, as
\* does a SYNC_CONSULTS message: the call starts a pass if and only if no
\* pass is in flight, and never more than one.
C29_Triggers ==
  /\ [][(~isOnline /\ isOnline') =>
          /\ Cardinality(Started) <= 1
          /\ Started # {} <=> InFlight = {}]_vars
  /\ [][Started # {} => Cardinality(Started) = 1 /\ InFlight = {}]_vars

\* The entry has been marked by a pass: synced, or failed with an attempt
\* counted, or swept since.
Marked(id) ==
  \/ id \notin DOMAIN offlineConsults
  \/ offlineConsults[id].status = "synced"
  \/ offlineConsults[id].status = "failed" /\ offlineConsults[id].attempts >= 1

\* C30: a transition to offline sets isOnline to false, starts no pass and
\* leaves every pass in flight as it was; a pass in flight keeps its
\* snapshot and what it has sent, online or not, and leaves only after
\* every entry of the snapshot has been transmitted and marked.
C30_OfflineDoesNotCancel ==
  /\ [][(isOnline /\ ~isOnline') =>
          /\ passes' = passes
          /\ syncing' = syncing
          /\ offlineConsults' = offlineConsults]_vars
  /\ [][\A p \in InFlight :
          IF passes'[p].pc = "idle"
          THEN /\ passes[p].pc = "return"
               /\ passes[p].sent = passes[p].pending
               /\ Len(passes[p].outcomes) = Len(passes[p].pending)
               /\ \A id \in Range(passes[p].pending) : Marked(id)
          ELSE /\ passes'[p].pending = passes[p].pending
               /\ Len(passes'[p].sent) >= Len(passes[p].sent)
               /\ SubSeq(passes'[p].sent, 1, Len(passes[p].sent)) = passes[p].sent]_vars

\* The connection was lost while a pass over two entries was in flight:
\* the pass has gone on to transmit both and to mark both.
C30_Witness ==
  /\ ~isOnline
  /\ \E p \in Slots :
       /\ passes[p].pc = "return"
       /\ Len(passes[p].pending) = 2
       /\ passes[p].sent = passes[p].pending
       /\ passes[p].outcomes = <<"ok", "fail">>
       /\ \A id \in Range(passes[p].pending) : Marked(id)

\* C31: inside a pass a failed transmit is caught and counted in failed,
\* while a store call rejecting inside the loop makes the pass reject and
\* is not counted as a failed transmit: the catch that marks and counts is
\* entered after failed transmits only, and failed never exceeds the number
\* of failed transmits.
C31_FailurePropagation ==
  \A p \in Slots :
    /\ passes[p].pc = "markFailed" => passes[p].outcomes[passes[p].idx] = "fail"
    /\ passes[p].failed <= Count(passes[p].outcomes, "fail")

\* A step of the pass in slot p.
Moves(p) == passes'[p].pc # passes[p].pc \/ passes'[p].idx # passes[p].idx

\* The record id is in the store before and after the step and differs.
Changed(id) ==
  /\ id \in DOMAIN offlineConsults /\ id \in DOMAIN offlineConsults'
  /\ offlineConsults'[id] # offlineConsults[id]

\* C32: markConsultSynced and markConsultFailed change only the status (and
\* markConsultFailed the attempts) of the record they address: createdAt,
\* clientId and data of every record and every other record stay as they
\* were, no record is removed by them, and a record in the store changes or
\* leaves only in a marking step of a pass at that record or in a sweep.
C32_Frame ==
  [][/\ \A id \in DOMAIN offlineConsults \cap DOMAIN offlineConsults' :
          /\ offlineConsults'[id].createdAt = offlineConsults[id].createdAt
          /\ offlineConsults'[id].clientId = offlineConsults[id].clientId
          /\ offlineConsults'[id].data = offlineConsults[id].data
     /\ \A p \in Slots :
          (passes[p].pc \in {"transmit", "markFailed"} /\ Moves(p)) =>
            /\ DOMAIN offlineConsults' = DOMAIN offlineConsults
            /\ \A id \in DOMAIN offlineConsults : Changed(id) => id = Current(p)
            /\ passes[p].pc = "transmit" =>
                  \A id \in DOMAIN offlineConsults : Changed(id) =>
                    /\ offlineConsults'[id].status = "synced"
                    /\ offlineConsults'[id].attempts = offlineConsults[id].attempts
     /\ \A id \in DOMAIN offlineConsults :
          /\ Changed(id) =>
                \E p \in Slots : /\ passes[p].pc \in {"transmit", "markFailed"}
                                 /\ Moves(p) /\ Current(p) = id
          /\ id \notin DOMAIN offlineConsults' => \E p \in Slots : Sweeps(p)]_vars

\* Two records in the store, one marked synced and the other marked failed.
C32_Witness ==
  \E a, b \in DOMAIN offlineConsults :
    /\ a # b
    /\ offlineConsults[a].status = "synced"
    /\ offlineConsults[b].status = "failed" /\ offlineConsults[b].attempts >= 1

\* markConsultFailed(id) is between its get and its update in some pass.
Marking(id) ==
  \E p \in Slots : passes[p].pc = "markFailed" /\ Current(p) = id

\* C33: the attempts of a record equal the number of failed transmits made
\* for it, whatever the interleaving of the markConsultFailed calls on it
\* (compared whenever no such call is between its get and its update).
C33_AttemptsAccounting ==
  \A id \in DOMAIN offlineConsults :
    ~Marking(id) => offlineConsults[id].attempts = transmitLog[id].failed

\* C34: a record whose status is synced is never set back to pending or
\* failed by any operation or interleaving of passes: it stays as it is
\* until a retention sweep deletes it.
C34_SyncedIsFinal ==
  [][\A id \in DOMAIN offlineConsults :
       offlineConsults[id].status = "synced" =>
         IF id \in DOMAIN offlineConsults'
         THEN offlineConsults'[id] = offlineConsults[id]
         ELSE \E p \in Slots : Sweeps(p)]_vars

\* The step calls syncFn in slot p: the pass's log of calls grows.
Invokes(p) == Len(passes'[p].sent) > Len(passes[p].sent)

\* C35: with no reload in the middle of a transmit, every record has at
\* most one transmit that succeeded, under every sequence and interleaving
\* of triggers, and syncFn is never called for a record whose status is
\* synced.
C35_TransmittedOnce ==
  /\ [](\A id \in Ids : transmitLog[id].ok <= 1)
  /\ [][\A p \in Slots : Invokes(p) =>
          LET id == passes'[p].sent[Len(passes'[p].sent)]
          IN id \in DOMAIN offlineConsults' =>
               offlineConsults'[id].status # "synced"]_vars

\* C36: the flag syncing does not stay set for ever: after every pass,
\* whether syncAllPending returned its counts or rejected, it is cleared,
\* so that with no pass in flight the flag is clear and the next trigger
\* starts a pass.
C36_FlagClears ==
  /\ syncing ~> ~syncing
  /\ [](InFlight = {} => ~syncing)
  /\ [][(InFlight = {} /\ ~isOnline /\ isOnline') => Started # {}]_vars

\* C37: every response the fetch handler stores in a cache is an ok
\* response, on every path: the puts issued carry ok responses, the caches
\* hold ok responses only, and a request answered from a cache is never
\* answered with an error response.
C37_OnlyOkStored ==
  /\ \A p \in swPuts : ok(p.response)
  /\ \A n \in DOMAIN swCaches : \A k \in DOMAIN swCaches[n] : ok(swCaches[n][k])
  /\ swResult.via = "cache" => ok(swResult.response)

\* The number of records the onSubmit call made last has enqueued.
EnqueuedBySubmit == nextId - page.firstNew

\* The onSubmit call made last has run to its end.
Submitted == page.pc = "idle" /\ page.calls = 1

\* C38: a form submission is enqueued, as exactly one pending record, if
\* and only if the application was offline when it was submitted or the
\* remote write failed; when the remote write succeeds nothing is
\* enqueued; when the enqueue itself fails (no saveOfflineConsult call of
\* the handler succeeds) nothing is stored and the user is told that the
\* save failed, and is told so in that case only: no submission is dropped
\* silently.
C38_WritePath ==
  /\ [](~Submitted => (page.calls = 1 => EnqueuedBySubmit = 0))
  /\ [](Submitted =>
          /\ EnqueuedBySubmit \in {0, 1}
          /\ page.create = "resolved" =>
                EnqueuedBySubmit = 0 /\ page.toast = "submitted"
          /\ EnqueuedBySubmit = 1 =>
                /\ ~page.online \/ page.create = "rejected"
                /\ page.toast \in {"saved offline", "server error, saved offline"}
          /\ (~page.online \/ page.create = "rejected") =>
                EnqueuedBySubmit = 1 \/ page.toast = "failed"
          /\ page.toast = "failed" <=>
                (EnqueuedBySubmit = 0 /\ page.saves >= 1))
  /\ [][nextId' # nextId =>
          /\ nextId' = nextId + 1
          /\ DOMAIN offlineConsults' = DOMAIN offlineConsults \cup {nextId}
          /\ offlineConsults'[nextId].status = "pending"
          /\ offlineConsults'[nextId].attempts = 0
          /\ page'.consult_id = offlineConsults'[nextId].clientId]_vars

\* A submission made online whose remote write failed has been enqueued.
C38_Witness ==
  /\ Submitted
  /\ page.online /\ page.create = "rejected"
  /\ EnqueuedBySubmit = 1
  /\ page.toast = "server error, saved offline"
  /\ nextId - 1 \in DOMAIN offlineConsults
  /\ offlineConsults[nextId - 1].status = "pending"

====
